---------------------------- MODULE Spec2Model ----------------------------
(***************************************************************************)
(* plasmaSnow: the window tracking, drag detection and periodic            *)
(* reconciliation of src/src/windows.c as a state machine.                 *)
(*                                                                         *)
(* The X11 event handlers (onAppWindowChange, onWindowCreated,             *)
(* onWindowMapped, onWindowUnmapped, onWindowDestroyed) are one action     *)
(* each.  updateWindowsList, the main loop callback, is a process whose    *)
(* position is pc: it is cut where another party could run in between.     *)
(* What the X server, the window manager and the accumulation engine       *)
(* answer is drawn from small sets with \E and kept in ev, the record of   *)
(* the operation that ran last; calls is the sequence of calls that        *)
(* operation made to its collaborators.                                    *)
(***************************************************************************)
EXTENDS Integers, Sequences, FiniteSets, TLC

(***************************************************************************)
(* Bounds of the model.                                                    *)
(***************************************************************************)
\* Window ids are 1..NumWindows; window 1 is the root window.
NumWindows == 3
\* A refresh reports at most this many visible windows.
MaxListLen == 2

\* XineramaQueryScreens reports at most this many monitors.
MaxMonitors == 3
\* Workspace ids are 0..MaxWorkspace.
MaxWorkspace == 1
\* At most this many probe windows are created in a run.
MaxProbes == 2
\* At most this many calls of createTransparentWindow in a run.
MaxCreates == 2
\* The load pressure thresholds tried are -MaxPressure .. 0 and
\* 0 .. MaxPressure.
MaxPressure == 2
\* The values of WARNING_COUNT_MAX tried are 0 .. MaxWarnings.
MaxWarnings == 2

(***************************************************************************)
(* Program constants.                                                      *)
(***************************************************************************)
\* X11's None (the null window id), as used for the drag fields.
None == 0
mINVALID_POSITION == -1
\* isMouseClickedAndHeldInWindow: the Button1 bit of the pointer state.
POINTER_CLICKDOWN == 256
\* updateWindowsList: the soft tries it allows softLockFallenSnowBaseSemaphore.
maxSoftTries == 3
\* updateWindowsList: wcounter > 9 forces an update.
FORCE_AFTER == 9
\* resetVolatileTransparentWindowAttributes: the times the settings are done.
rep == 1

\* mGlobal.Rootwindow: the id of the root window.
Rootwindow == 1
\* SnowWinWidth and SnowWinHeight: the size of the overlay
\* window, which nothing modelled here changes.
SnowWinWidth == 4
SnowWinHeight == 3

Windows == 1 .. NumWindows
\* The windows an event can be about: every window but the root.
EventWindows == Windows \ {Rootwindow}

VARIABLES
    mIsWindowBeingDragged,          \* windows.c:58
    mWindowBeingDragged,            \* windows.c:59
    mActiveAppDragWindowCandidate,  \* windows.c:60
    mUpdateWindowsLockCounter,      \* windows.c:62
    mActiveAppWindow,               \* windows.c:64
    mActiveAppXPos,                 \* windows.c:66
    mActiveAppYPos,                 \* windows.c:67
    mGlobal,                        \* the fields of mGlobal windows.c uses
    Flags,                          \* shutdownRequested, NoKeepSnowOnWindows
    wcounter,                       \* static of updateWindowsList, windows.c:417
    probeWindow,                    \* static of getCurrentWorkspaceData, :143
    sem,                            \* who holds the FallenSnow semaphore
    xprobe,                         \* the X server's view of the probe windows
    pc,                             \* where updateWindowsList stands
    loc,                            \* the locals of the running updateWindowsList
    ret,                            \* what updateWindowsList returned last
    nLocked,                        \* ticks that took the lock since the last
                                    \* forced update
    widget,                         \* the GTK window of transwindow.c: its
                                    \* object data, handlers and attributes
    loadMeasure,                    \* LoadMeasure.c:39-42 and the thresholds
                                    \* of LoadMeasure.h
    ev,                             \* the last operation and what it was given
    calls                           \* the calls the last operation made

dragVars == <<mIsWindowBeingDragged, mWindowBeingDragged,
              mActiveAppDragWindowCandidate>>
activeAppVars == <<mActiveAppWindow, mActiveAppXPos, mActiveAppYPos>>
vars == <<mIsWindowBeingDragged, mWindowBeingDragged,
          mActiveAppDragWindowCandidate, mUpdateWindowsLockCounter,
          mActiveAppWindow, mActiveAppXPos, mActiveAppYPos,
          mGlobal, Flags, wcounter, probeWindow, sem, xprobe, pc, loc, ret,
          nLocked, widget, loadMeasure, ev, calls>>
\* What only updateWindowsList and getCurrentWorkspaceData write.
loopVars == <<mUpdateWindowsLockCounter, Flags, wcounter, probeWindow, sem,
              xprobe, pc, loc, ret, nLocked, widget, loadMeasure>>

(***************************************************************************)
(* The window system, as the handlers query it.                            *)
(***************************************************************************)
\* The position the X server reports for window w: every window has its own,
\* x and y differ, and none is mINVALID_POSITION.
RawPos(w) == <<w, w + NumWindows>>

WinInfo(w) == [window |-> w, x |-> RawPos(w)[1], y |-> RawPos(w)[2]]

RECURSIVE SeqsUpTo(_, _)
SeqsUpTo(S, n) ==
    IF n = 0 THEN {<<>>}
    ELSE LET shorter == SeqsUpTo(S, n - 1)
         IN  shorter \cup {Append(s, e) : s \in shorter, e \in S}

NoDuplicateWindow(list) ==
    \A i, j \in 1 .. Len(list) :
        list[i].window = list[j].window => i = j

\* What one enumeration of the visible top-level windows can yield.  The root
\* window is never in it; a failed query yields the empty list.
WinLists ==
    {l \in SeqsUpTo({WinInfo(w) : w \in EventWindows}, MaxListLen) :
        NoDuplicateWindow(l)}

\* XQueryTree's parent: the windows form the chain NumWindows -> ... -> 2 -> 1,
\* the root's parent is None.
XQueryTreeParent(w) == IF w = Rootwindow THEN None ELSE w - 1
\* XQueryTree's status: it fails on a window id that names no window.
XQueryTreeOk(w) == w \in Windows

(***************************************************************************)
(* WinInfo.c (not in src/): the Window Snapshot Store.                     *)
(***************************************************************************)
\* getWinInfoForWindow: the index of the first record of window w, 0 for NULL.
getWinInfoForWindow(list, w) ==
    IF \E i \in 1 .. Len(list) : list[i].window = w
    THEN CHOOSE i \in 1 .. Len(list) :
            /\ list[i].window = w
            /\ \A j \in 1 .. (i - 1) : list[j].window # w
    ELSE 0

\* getWinInfoForAllWindows: the stored list is replaced as a whole by a fresh
\* enumeration; the refresh may mark the changed flag.
getWinInfoForAllWindows(g, list, mark) ==
    [g EXCEPT !.winInfoList = list,
              !.WindowsChanged = IF mark THEN 1 ELSE @]

Call(fn, arg) == [fn |-> fn, arg |-> arg]

(***************************************************************************)
(* Drag-state helpers, windows.c:779-805 and 525-572.                      *)
(***************************************************************************)
\* A clearAllDragFields that clears the flag alone.
clearAllDragFields_FlagOnly ==
    /\ mIsWindowBeingDragged' = FALSE
    /\ UNCHANGED <<mWindowBeingDragged, mActiveAppDragWindowCandidate>>

\* A clearAllDragFields that forgets the dragged window.
clearAllDragFields_KeepWindow ==
    /\ mIsWindowBeingDragged' = FALSE
    /\ mWindowBeingDragged' = mWindowBeingDragged
    /\ mActiveAppDragWindowCandidate' = None

clearAllDragFields ==
    /\ mIsWindowBeingDragged' = FALSE
    /\ mWindowBeingDragged' = None
    /\ mActiveAppDragWindowCandidate' = None

\* A getDragWindowOf that starts at the parent of the window.
getDragWindowOf_FromParent(list, windowNode) ==
    LET found == {w \in 1 .. (windowNode - 1) :
                    \E i \in 1 .. Len(list) : list[i].window = w}
    IN  IF found = {} THEN None
        ELSE CHOOSE w \in found : \A v \in found : v <= w

\* A getDragWindowOf that answers the window it was asked about when neither
\* it nor an ancestor is in the list.
getDragWindowOf_OrSelf(list, windowNode) ==
    LET found == {w \in 1 .. windowNode :
                    \E i \in 1 .. Len(list) : list[i].window = w}
    IN  IF found = {} THEN windowNode
        ELSE CHOOSE w \in found : \A v \in found : v <= w

\* getDragWindowOf: window itself or its nearest ancestor that is in the list;
\* None when XQueryTree fails before one is found.
RECURSIVE getDragWindowOf(_, _)
getDragWindowOf(list, windowNode) ==
    IF \E i \in 1 .. Len(list) : list[i].window = windowNode
    THEN windowNode
    ELSE IF ~XQueryTreeOk(windowNode)
         THEN None
         ELSE getDragWindowOf(list, XQueryTreeParent(windowNode))

\* pointerState & POINTER_CLICKDOWN
BitSet(state, bit) == (state \div bit) % 2 = 1

\* An isMouseClickedAndHeldInWindow that compares the state instead of
\* masking it.
isMouseClickedAndHeldInWindow_Equal(reply) ==
    reply.found /\ reply.state = POINTER_CLICKDOWN

\* isMouseClickedAndHeldInWindow, on XQueryPointer's reply.
isMouseClickedAndHeldInWindow(reply) ==
    reply.found /\ BitSet(reply.state, POINTER_CLICKDOWN)

(***************************************************************************)
(* The events the X server delivers.                                       *)
(***************************************************************************)
Flip(field, bad, good, other) == IF field \in bad THEN other ELSE good

CreateFields == {"send_event", "parent", "x", "y", "width", "height",
                 "border_width", "override_redirect"}
MapFields == {"send_event", "event", "override_redirect"}

\* The events tried: those that match the signature and those that differ from
\* it in exactly one field.
FewOf(fields) == {{}} \cup {{f} : f \in fields}

\* A CreateNotify event about window w whose fields in bad differ from the
\* signature of a Plasma drag window.
XCreateWindowEvent(w, bad) ==
    [type |-> "CreateNotify",
     window |-> w,
     send_event |-> Flip("send_event", bad, 0, 1),
     parent |-> Flip("parent", bad, Rootwindow, NumWindows),
     x |-> Flip("x", bad, 0, 1),
     y |-> Flip("y", bad, 0, 1),
     width |-> Flip("width", bad, SnowWinWidth, SnowWinWidth + 1),
     height |-> Flip("height", bad, SnowWinHeight, SnowWinHeight + 1),
     border_width |-> Flip("border_width", bad, 0, 1),
     override_redirect |-> Flip("override_redirect", bad, 0, 1)]

CreateEvents ==
    {XCreateWindowEvent(w, bad) : w \in EventWindows, bad \in FewOf(CreateFields)}

XMapEvent(w, bad) ==
    [type |-> "MapNotify",
     window |-> w,
     send_event |-> Flip("send_event", bad, 0, 1),
     event |-> Flip("event", bad, Rootwindow, NumWindows),
     override_redirect |-> Flip("override_redirect", bad, 0, 1)]

MapEvents ==
    {XMapEvent(w, bad) : w \in EventWindows, bad \in FewOf(MapFields)}

\* XQueryPointer's replies: the query fails (the state is then not read), or
\* it reports the buttons and modifiers held.
NoReply == [found |-> FALSE, state |-> 0]
PointerReplies ==
    {NoReply} \cup {[found |-> TRUE, state |-> s] :
                        s \in {16, POINTER_CLICKDOWN, POINTER_CLICKDOWN + 16}}

\* The pointer query succeeded and a button is down.  The focused window is
\* drawn only then: otherwise no handler asks for it.
ButtonHeld(reply) == reply.found /\ (reply.state % 512) >= 256

(***************************************************************************)
(* Workspace discovery: getCurrentWorkspaceData, windows.c:129-220.        *)
(***************************************************************************)
\* XineramaQueryScreens: monitor i (from 1) of the screen-info array.
ScreenInfo(i) ==
    [x_org |-> (i - 1) * 9, y_org |-> 0, width |-> 9, height |-> 6]

\* What the monitor query and the per-monitor workspace queries answer:
\* number monitors (info is NULL when isNull), and for monitor i the return
\* code of xdo_get_desktop_for_window and the workspace id it stored.
DesktopReplies ==
    {[rc |-> "XDO_SUCCESS", desktop |-> d] : d \in 0 .. MaxWorkspace}
        \cup {[rc |-> "XDO_ERROR", desktop |-> 0]}
MonitorQueries ==
    {[isNull |-> TRUE, number |-> 0, desktop |-> <<>>],
     [isNull |-> FALSE, number |-> 1, desktop |-> <<>>]} \cup
    UNION {{[isNull |-> FALSE, number |-> n, desktop |-> d] :
                d \in [1 .. n -> DesktopReplies]} : n \in 2 .. MaxMonitors}

Centre_Corner(org, size) == org

\* windows.c:193-194: the centre of a monitor along one axis.
Centre(org, size) == org + (size \div 2)

DesktopOf_Raw(reply, currentWorkspace) == reply.desktop

\* windows.c:201-206: the workspace of the probe, or the current workspace
\* when the query fails.
DesktopOf(reply, currentWorkspace) ==
    IF reply.rc = "XDO_ERROR" THEN currentWorkspace ELSE reply.desktop

OffsetReset_First(desktop, prev) == desktop # prev

\* windows.c:210-215: the offset is reset when the workspace differs from
\* that of the monitor before.
OffsetReset(desktop, prev) == desktop # prev /\ prev >= 0

\* The loop over the monitors, windows.c:186-217, from monitor i on: st holds
\* VisWorkSpaces, the offset, prev and the calls so far.  prev starts at
\* -SOMENUMBER, a negative number.
RECURSIVE ProbeMonitors(_, _, _, _)
ProbeMonitors(i, q, currentWorkspace, st) ==
    IF i > q.number THEN st
    ELSE LET info == ScreenInfo(i)
             xm == Centre(info.x_org, info.width)
             ym == Centre(info.y_org, info.height)
             desktop == DesktopOf(q.desktop[i], currentWorkspace)
             reset == OffsetReset(desktop, st.prev)
         IN  ProbeMonitors(i + 1, q, currentWorkspace,
                 [vis |-> [st.vis EXCEPT ![i] = desktop],
                  offX |-> IF reset THEN 0 ELSE st.offX,
                  offY |-> IF reset THEN 0 ELSE st.offY,
                  prev |-> IF desktop # st.prev THEN desktop ELSE st.prev,
                  calls |-> st.calls \o
                            <<Call("xdo_move_window", <<xm, ym>>),
                              Call("xdo_wait_for_window_map_state", i),
                              Call("xdo_get_desktop_for_window", i)>>])

\* The early return of windows.c:137-141 and 160-164.
OneWorkspace(g) ==
    [g EXCEPT !.NVisWorkSpaces = 1,
              !.VisWorkSpaces = [@ EXCEPT ![1] = g.currentWorkspace]]

XDestroyWindow_Keep(xp, w) == xp

\* XDestroyWindow(probeWindow), windows.c:144-145, on the X server's side: a
\* request for a window that does not exist is a BadWindow error.
XDestroyWindow(xp, w) ==
    [xp EXCEPT !.alive = @ \ {w},
               !.mapped = @ \ {w},
               !.badWindow = @ \/ w \notin xp.alive]

\* getCurrentWorkspaceData() on mGlobal g, the static probeWindow pw and the X
\* server's probe windows xp, with the answers q: the three afterwards, and
\* the calls made.
getCurrentWorkspaceData(g, pw, xp, q) ==
    IF ~g.hasDestopWindow
    THEN [g |-> OneWorkspace(g), pw |-> pw, xp |-> xp, calls |-> <<>>]
    ELSE LET destroyed == IF pw # 0 THEN XDestroyWindow(xp, pw) ELSE xp
             destroyCalls == IF pw # 0 THEN <<Call("XDestroyWindow", pw)>>
                             ELSE <<>>
         IN  IF q.number = 1 \/ q.isNull
             THEN [g |-> OneWorkspace(g), pw |-> pw, xp |-> destroyed,
                   calls |-> destroyCalls]
             ELSE LET new == xp.created + 1
                      st == ProbeMonitors(1, q, g.currentWorkspace,
                                [vis |-> g.VisWorkSpaces,
                                 offX |-> g.WindowOffsetX,
                                 offY |-> g.WindowOffsetY,
                                 prev |-> -1,
                                 calls |-> <<>>])
                  IN  [g |-> [g EXCEPT !.NVisWorkSpaces = q.number,
                                       !.VisWorkSpaces = st.vis,
                                       !.WindowOffsetX = st.offX,
                                       !.WindowOffsetY = st.offY],
                       pw |-> new,
                       xp |-> [destroyed EXCEPT
                                  !.alive = @ \cup {new},
                                  !.mapped = (@ \cup {new}) \ {new},
                                  !.created = new],
                       calls |-> destroyCalls
                                 \o <<Call("XCreateWindow", new),
                                      Call("xdo_map_window", new)>>
                                 \o st.calls
                                 \o <<Call("xdo_unmap_window", new)>>]

(***************************************************************************)
(* transwindow.c: the transparent GTK window.  widget holds the object     *)
(* data createTransparentWindow stores on it, the "draw" handlers          *)
(* connected to it and the attributes of its window.  The marker           *)
(* "trans_done" is a pointer into something[]: trans_done is its offset,   *)
(* 0 when no marker is stored.                                             *)
(***************************************************************************)
NewWidget ==
    [data |-> {}, trans_done |-> 0, handlers |-> 0,
     shown |-> FALSE, closed |-> FALSE, type_hint |-> "normal",
     input_shape |-> "window", keep_above |-> "unset",
     keep_below |-> "unset", sticky |-> "unset"]

\* transwindow.c:283-311.
setTransparentWindowBelow(w) ==
    [w EXCEPT !.keep_above = "off", !.keep_below = "on"]

\* transwindow.c:316-345.
setTransparentWindowAbove(w) ==
    [w EXCEPT !.keep_below = "off", !.keep_above = "on"]

TransDone_Never(p) == FALSE

\* transwindow.c:233: the settings were done as often as they are to be.
TransDone(p) == p >= rep

\* resetVolatileTransparentWindowAttributes, transwindow.c:212-278: the widget
\* afterwards, the calls made and whether the settings were done.
resetVolatileTransparentWindowAttributes(w) ==
    LET p == w.trans_done
    IN  IF TransDone(p)
        THEN [widget |-> w, calls |-> <<>>, applied |-> FALSE]
        ELSE
        LET w1 == [w EXCEPT !.trans_done = p + 1, !.input_shape = "empty"]
            w2 == IF "trans_nobelow" \in w1.data THEN w1
                  ELSE IF "trans_below" \in w1.data
                  THEN setTransparentWindowBelow(w1)
                  ELSE setTransparentWindowAbove(w1)
            stacking == IF "trans_nobelow" \in w1.data THEN <<>>
                        ELSE IF "trans_below" \in w1.data
                        THEN <<Call("setTransparentWindowBelow", None)>>
                        ELSE <<Call("setTransparentWindowAbove", None)>>
            stick == "trans_sticky" \in w2.data
        IN  [widget |-> [w2 EXCEPT !.sticky = IF stick THEN "on" ELSE "off"],
             calls |-> <<Call("gdk_window_input_shape_combine_region", None)>>
                       \o stacking
                       \o <<Call(IF stick THEN "gtk_window_stick"
                                 ELSE "gtk_window_unstick", None)>>,
             applied |-> TRUE]

\* transwindow.c:95-112: the object data that holds sticky and below.
TransData(sticky, below) ==
    (IF sticky # 0 THEN {"trans_sticky"} ELSE {})
        \cup (IF below = 0 THEN {"trans_nobelow"}
              ELSE IF below = 1 THEN {"trans_below"}
              ELSE {})

\* createTransparentWindow, transwindow.c:65-198, without the size and the
\* position of the window: the widget afterwards, the value returned, the
\* calls of the settings and how often the settings were done.
createTransparentWindow(w, sticky, below, dock, composited) ==
    LET w1 == [w EXCEPT !.handlers = @ + 1,
                        !.data = TransData(sticky, below),
                        !.trans_done = 0]
    IN  IF ~composited
        THEN [widget |-> [w1 EXCEPT !.closed = TRUE], ret |-> FALSE,
              calls |-> <<>>, applied |-> 0]
        ELSE LET w2 == [w1 EXCEPT !.shown = TRUE,
                                  !.type_hint = IF dock # 0 THEN "dock" ELSE @]
                 done == resetVolatileTransparentWindowAttributes(w2)
             IN  [widget |-> [done.widget EXCEPT !.trans_done = 0],
                  ret |-> TRUE, calls |-> done.calls,
                  applied |-> IF done.applied THEN 1 ELSE 0]

\* One "draw" event: GTK calls the handlers connected, n of them left, one
\* after the other (each returns FALSE, so the next one runs).
RECURSIVE DrawHandlers(_, _)
DrawHandlers(w, n) ==
    IF n = 0 THEN [widget |-> w, calls |-> <<>>, applied |-> 0]
    ELSE LET first == resetVolatileTransparentWindowAttributes(w)
             others == DrawHandlers(first.widget, n - 1)
         IN  [widget |-> others.widget,
              calls |-> first.calls \o others.calls,
              applied |-> (IF first.applied THEN 1 ELSE 0) + others.applied]

(***************************************************************************)
(* LoadMeasure.c: the load monitor.  The thresholds LOAD_PRESSURE_LOW,     *)
(* LOAD_PRESSURE_HIGH and WARNING_COUNT_MAX are constants of LoadMeasure.h *)
(* (not in src/); loadMeasure holds the ones of this run beside the three  *)
(* variables of LoadMeasure.c:39-42.                                       *)
(***************************************************************************)
NewLoadMeasure(low, high, max) ==
    [mIsSystemBusy |-> FALSE, mWarningCount |-> 0, mLoadPressure |-> 0,
     LOAD_PRESSURE_LOW |-> low, LOAD_PRESSURE_HIGH |-> high,
     WARNING_COUNT_MAX |-> max]

AboveHigh_OrAt(m) == m.mLoadPressure >= m.LOAD_PRESSURE_HIGH

\* LoadMeasure.c:70.
AboveHigh(m) == m.mLoadPressure > m.LOAD_PRESSURE_HIGH

\* LoadMeasure.c:85.
BelowLow(m) == m.mLoadPressure < m.LOAD_PRESSURE_LOW

\* execLoadMeasureBackgroundThread, LoadMeasure.c:60-96, on the variables m:
\* late says that more time than allowed has passed since the call before,
\* NoMenu is Flags.NoMenu.  The variables afterwards, the calls made and the
\* value returned.
execLoadMeasureBackgroundThread(m, late, NoMenu) ==
    LET m1 == [m EXCEPT !.mLoadPressure = IF late THEN @ + 1 ELSE @ - 1]
    IN  IF AboveHigh(m1)
        THEN [m |-> [m1 EXCEPT
                        !.mIsSystemBusy = TRUE,
                        !.mWarningCount =
                            IF ~m1.mIsSystemBusy /\ @ < m1.WARNING_COUNT_MAX
                            THEN @ + 1 ELSE @,
                        !.mLoadPressure = 0],
              calls |-> IF ~m1.mIsSystemBusy /\ NoMenu = 0
                        THEN <<Call("addBusyStyleClass", None)>> ELSE <<>>,
              ret |-> TRUE]
        ELSE IF BelowLow(m1)
        THEN [m |-> [m1 EXCEPT !.mIsSystemBusy = FALSE,
                               !.mLoadPressure = 0],
              calls |-> IF m1.mIsSystemBusy /\ NoMenu = 0
                        THEN <<Call("removeBusyStyleClass", None)>> ELSE <<>>,
              ret |-> TRUE]
        ELSE [m |-> m1, calls |-> <<>>, ret |-> TRUE]

(***************************************************************************)
(* The state after start-up.                                               *)
(***************************************************************************)
\* snowWin: the overlay window; desktop, transparent, nokeep: the values of
\* hasDestopWindow, hasTransparentWindow and Flags.NoKeepSnowOnWindows.
InitWindows(snowWin, desktop, transparent, nokeep) ==
    /\ mIsWindowBeingDragged = FALSE
    /\ mWindowBeingDragged = None
    /\ mActiveAppDragWindowCandidate = None
    /\ mUpdateWindowsLockCounter = 0
    /\ mActiveAppWindow = None
    /\ mActiveAppXPos = mINVALID_POSITION
    /\ mActiveAppYPos = mINVALID_POSITION
    /\ mGlobal = [winInfoList |-> <<>>,
                  WindowsChanged |-> 0,
                  SnowWin |-> snowWin,
                  SnowWinX |-> 1, SnowWinY |-> 2,
                  hasDestopWindow |-> desktop,
                  hasTransparentWindow |-> transparent,
                  currentWorkspace |-> 0,
                  NVisWorkSpaces |-> 1,
                  VisWorkSpaces |-> [i \in 1 .. MaxMonitors |-> 0],
                  WindowOffsetX |-> 2, WindowOffsetY |-> 4]
    /\ Flags = [shutdownRequested |-> 0, NoKeepSnowOnWindows |-> nokeep]
    /\ wcounter = 0
    /\ probeWindow = 0
    /\ sem = "free"
    /\ xprobe = [alive |-> {}, mapped |-> {}, created |-> 0,
                 badWindow |-> FALSE]
    /\ pc = "idle"
    /\ loc = [i |-> 0]
    /\ ret = TRUE
    /\ nLocked = 0
    /\ widget = NewWidget
    /\ ev = [type |-> "start"]
    /\ calls = <<>>

\* The same with the load monitor at its start, under thresholds of -1 and 1
\* and one warning.
InitWith(snowWin, desktop, transparent, nokeep) ==
    /\ InitWindows(snowWin, desktop, transparent, nokeep)
    /\ loadMeasure = NewLoadMeasure(-1, 1, 1)

Init == InitWith(NumWindows, TRUE, FALSE, 0)

(***************************************************************************)
(* The event handlers, windows.c:586-751.  The dispatcher calls them from   *)
(* the main loop, one event at a time.  in holds the sets the event and    *)
(* the answers of the window system are drawn from.                        *)
(***************************************************************************)
Refresh == Call("getWinInfoForAllWindows", None)

\* A clearAllActiveAppFields that leaves the position as it was.
clearAllActiveAppFields_KeepPos ==
    [window |-> None, x |-> mActiveAppXPos, y |-> mActiveAppYPos]

\* clearAllActiveAppFields, windows.c:525-531: what it leaves in the active-app
\* fields; it also clears the drag fields.
clearAllActiveAppFields ==
    [window |-> None, x |-> mINVALID_POSITION, y |-> mINVALID_POSITION]

\* onAppWindowChange(window), windows.c:586-599.
onAppWindowChange(in) ==
    \E window \in in.apps :
        LET cleared == clearAllActiveAppFields
            idx == getWinInfoForWindow(mGlobal.winInfoList, window)
        IN  /\ clearAllDragFields
            /\ mActiveAppWindow' = window
            /\ mActiveAppXPos' = IF idx # 0 THEN mGlobal.winInfoList[idx].x
                                 ELSE cleared.x
            /\ mActiveAppYPos' = IF idx # 0 THEN mGlobal.winInfoList[idx].y
                                 ELSE cleared.y
            /\ ev' = [type |-> "ActiveAppChange", window |-> window,
                      wasDragging |-> mIsWindowBeingDragged]
            /\ calls' = <<>>
            /\ UNCHANGED <<mGlobal, loopVars>>

\* An IsDragWindowCreated that does not look at the border width.
IsDragWindowCreated_NoBorder(e) ==
    /\ e.send_event = 0
    /\ e.parent = Rootwindow
    /\ e.x = 0
    /\ e.y = 0
    /\ e.width = SnowWinWidth
    /\ e.height = SnowWinHeight
    /\ e.override_redirect = 0

\* The signature of a transient Plasma drag window being created,
\* windows.c:612-635.
IsDragWindowCreated(e) ==
    /\ e.send_event = 0
    /\ e.parent = Rootwindow
    /\ e.x = 0
    /\ e.y = 0
    /\ e.width = SnowWinWidth
    /\ e.height = SnowWinHeight
    /\ e.border_width = 0
    /\ e.override_redirect = 0

\* onWindowCreated(event), windows.c:604-638.
onWindowCreated(in) ==
    \E e \in in.creates, list \in in.lists, mark \in in.marks :
        /\ mGlobal' = getWinInfoForAllWindows(mGlobal, list, mark)
        /\ mActiveAppDragWindowCandidate' =
              IF IsDragWindowCreated(e) THEN e.window
              ELSE mActiveAppDragWindowCandidate
        /\ ev' = e
        /\ calls' = <<Refresh>>
        /\ UNCHANGED <<mIsWindowBeingDragged, mWindowBeingDragged,
                       activeAppVars, loopVars>>

\* An IsActiveAppMoving that compares the mapped window with the active
\* application window instead of the candidate.
IsActiveAppMoving_ActiveWindow(e) ==
    /\ e.send_event = 0
    /\ e.window = mActiveAppWindow
    /\ e.event = Rootwindow
    /\ e.override_redirect = 0

\* An IsActiveAppMoving that is content with any window but None.
IsActiveAppMoving_AnyWindow(e) ==
    /\ e.send_event = 0
    /\ e.window # None
    /\ e.event = Rootwindow
    /\ e.override_redirect = 0

\* The signature of the transient Plasma drag window being mapped,
\* windows.c:686-698.
IsActiveAppMoving(e) ==
    /\ e.send_event = 0
    /\ e.window = mActiveAppDragWindowCandidate
    /\ e.event = Rootwindow
    /\ e.override_redirect = 0

\* A first heuristic that looks the focused window up in the list as it was
\* before the handler's refresh.
ClickDragWindow_Stale(e, list, reply, focusedWindow) ==
    IF /\ ~mIsWindowBeingDragged
       /\ isMouseClickedAndHeldInWindow(reply)
       /\ e.window # None
       /\ focusedWindow # None
    THEN getDragWindowOf(mGlobal.winInfoList, focusedWindow)
    ELSE None

\* The first heuristic of onWindowMapped, windows.c:662-680: the window the
\* user drags with the mouse, None when the heuristic finds none.
ClickDragWindow(e, list, reply, focusedWindow) ==
    IF /\ ~mIsWindowBeingDragged
       /\ isMouseClickedAndHeldInWindow(reply)
       /\ e.window # None
       /\ focusedWindow # None
    THEN getDragWindowOf(list, focusedWindow)
    ELSE None

\* onWindowMapped(event), windows.c:657-711.  XQueryPointer is asked only
\* when no drag is on, XGetInputFocus only when a button is held.
onWindowMapped(in) ==
    \E e \in in.maps, list \in in.lists, mark \in in.marks :
    \E reply \in IF mIsWindowBeingDragged THEN {NoReply} ELSE in.replies :
    \E focusedWindow \in IF ButtonHeld(reply) THEN in.focus ELSE {None} :
        LET dragWindow == ClickDragWindow(e, list, reply, focusedWindow)
        IN  /\ mGlobal' = getWinInfoForAllWindows(mGlobal, list, mark)
            /\ IF dragWindow # None
               THEN /\ mIsWindowBeingDragged' = TRUE
                    /\ mWindowBeingDragged' = dragWindow
                    /\ calls' = <<Refresh,
                                  Call("removeFallenSnowFromWindow", dragWindow)>>
               ELSE IF IsActiveAppMoving(e)
               THEN /\ mIsWindowBeingDragged' = (mActiveAppWindow # None)
                    /\ mWindowBeingDragged' = mActiveAppWindow
                    /\ calls' = IF mActiveAppWindow # None
                                THEN <<Refresh,
                                       Call("removeFallenSnowFromAllWindows", None)>>
                                ELSE <<Refresh>>
               ELSE /\ UNCHANGED <<mIsWindowBeingDragged, mWindowBeingDragged>>
                    /\ calls' = <<Refresh>>
            /\ ev' = [e EXCEPT !.type = "MapNotify"] @@
                     [reply |-> reply, focusedWindow |-> focusedWindow,
                      wasDragging |-> mIsWindowBeingDragged]
            /\ UNCHANGED <<mActiveAppDragWindowCandidate, activeAppVars,
                           loopVars>>

\* onCursorChange, onWindowReparent, onWindowChanged, onWindowFocused and
\* onWindowBlurred, windows.c:578-581, 643-650 and 716-723: empty bodies.
EmptyHandler(type) ==
    /\ ev' = [type |-> type]
    /\ calls' = <<>>
    /\ UNCHANGED <<dragVars, activeAppVars, mGlobal, loopVars>>

onCursorChange == EmptyHandler("CursorNotify")
onWindowReparent == EmptyHandler("ReparentNotify")
onWindowChanged == EmptyHandler("ConfigureNotify")
onWindowFocused == EmptyHandler("FocusIn")
onWindowBlurred == EmptyHandler("FocusOut")

onWindowUnmapped_StartsDrag(in) ==
    \E list \in in.lists, mark \in in.marks :
        /\ mGlobal' = getWinInfoForAllWindows(mGlobal, list, mark)
        /\ mIsWindowBeingDragged' = ~mIsWindowBeingDragged
        /\ mWindowBeingDragged' =
              IF mIsWindowBeingDragged THEN None ELSE mActiveAppWindow
        /\ UNCHANGED mActiveAppDragWindowCandidate
        /\ ev' = [type |-> "UnmapNotify", wasDragging |-> mIsWindowBeingDragged]
        /\ calls' = <<Refresh>>
        /\ UNCHANGED <<activeAppVars, loopVars>>

\* onWindowUnmapped(event), windows.c:730-738.
onWindowUnmapped(in) ==
    \E list \in in.lists, mark \in in.marks :
        /\ mGlobal' = getWinInfoForAllWindows(mGlobal, list, mark)
        /\ IF mIsWindowBeingDragged
           THEN clearAllDragFields
           ELSE UNCHANGED dragVars
        /\ ev' = [type |-> "UnmapNotify", wasDragging |-> mIsWindowBeingDragged]
        /\ calls' = <<Refresh>>
        /\ UNCHANGED <<activeAppVars, loopVars>>

\* onWindowDestroyed(event), windows.c:743-751.
onWindowDestroyed(in) ==
    \E list \in in.lists, mark \in in.marks :
        /\ mGlobal' = getWinInfoForAllWindows(mGlobal, list, mark)
        /\ IF mIsWindowBeingDragged
           THEN clearAllDragFields
           ELSE UNCHANGED dragVars
        /\ ev' = [type |-> "DestroyNotify", wasDragging |-> mIsWindowBeingDragged]
        /\ calls' = <<Refresh>>
        /\ UNCHANGED <<activeAppVars, loopVars>>

(***************************************************************************)
(* FallenSnow.c (not in src/): the FallenSnow semaphore.                   *)
(***************************************************************************)
\* softLockFallenSnowBaseSemaphore(maxTries, &tryCount) while holder holds the
\* semaphore: whether it is taken, and the try count afterwards.  It defers
\* while the tries last; after that the caller waits for the semaphore.
softLockFallenSnowBaseSemaphore(maxTries, tryCount, holder) ==
    IF holder = "free"
    THEN [acquired |-> TRUE, waits |-> FALSE, tryCount |-> 0]
    ELSE [acquired |-> FALSE, waits |-> tryCount > maxTries,
          tryCount |-> tryCount + 1]

Unlock == Call("unlockFallenSnowSemaphore", None)

\* The accumulation engine's thread takes and releases the semaphore.
EngineLock ==
    /\ sem = "free"
    /\ sem' = "engine"
    /\ UNCHANGED <<dragVars, activeAppVars, mGlobal, Flags, wcounter,
                   mUpdateWindowsLockCounter, probeWindow, widget, loadMeasure, xprobe, pc, loc,
                   ret, nLocked, ev, calls>>

EngineUnlock ==
    /\ sem = "engine"
    /\ sem' = "free"
    /\ UNCHANGED <<dragVars, activeAppVars, mGlobal, Flags, wcounter,
                   mUpdateWindowsLockCounter, probeWindow, widget, loadMeasure, xprobe, pc, loc,
                   ret, nLocked, ev, calls>>

(***************************************************************************)
(* The reconciliation tick: updateWindowsList, windows.c:403-479.          *)
(***************************************************************************)
Tick(path) == [type |-> "updateWindowsList", path |-> path]

updateWindowsListStopped_Continue ==
    /\ ret' = TRUE
    /\ ev' = Tick("shutdown")
    /\ UNCHANGED <<sem, mUpdateWindowsLockCounter, pc>>

\* windows.c:404-406: shutdown is requested, the tick returns false.
updateWindowsListStopped ==
    /\ ret' = FALSE
    /\ ev' = Tick("shutdown")
    /\ UNCHANGED <<sem, mUpdateWindowsLockCounter, pc>>

updateWindowsListDeferred_Stop ==
    /\ ret' = FALSE
    /\ ev' = Tick("lockbusy")
    /\ UNCHANGED <<sem, pc>>

updateWindowsListDeferred_Unlock ==
    /\ ret' = TRUE
    /\ ev' = Tick("lockbusy")
    /\ sem' = "free"
    /\ UNCHANGED pc

\* windows.c:411-414: the semaphore was not taken, the tick returns true.
updateWindowsListDeferred ==
    /\ ret' = TRUE
    /\ ev' = Tick("lockbusy")
    /\ UNCHANGED <<sem, pc>>

\* windows.c:404-414: the tick returns at once, or takes the semaphore.
updateWindowsListEnter ==
    /\ pc = "idle"
    /\ calls' = <<>>
    /\ IF Flags.shutdownRequested # 0
       THEN updateWindowsListStopped
       ELSE IF Flags.NoKeepSnowOnWindows # 0
       THEN /\ ret' = TRUE
            /\ ev' = Tick("disabled")
            /\ UNCHANGED <<sem, mUpdateWindowsLockCounter, pc>>
       ELSE LET try == softLockFallenSnowBaseSemaphore(
                           maxSoftTries, mUpdateWindowsLockCounter, sem)
            IN  /\ ~try.waits
                /\ mUpdateWindowsLockCounter' = try.tryCount
                /\ IF try.acquired
                   THEN /\ sem' = "tick"
                        /\ pc' = "locked"
                        /\ ev' = Tick("locked")
                        /\ UNCHANGED ret
                   ELSE updateWindowsListDeferred
    /\ UNCHANGED <<dragVars, activeAppVars, mGlobal, Flags, wcounter,
                   probeWindow, xprobe, loc, nLocked, widget, loadMeasure>>

ForceUpdate_Early(counter) == counter >= FORCE_AFTER

\* windows.c:419: once in a while the update is forced.
ForceUpdate(counter) == counter > FORCE_AFTER

WorkspaceLost_OrFirst(WORKSPACE) == WORKSPACE <= 0

\* windows.c:430: the workspace number is no workspace.
WorkspaceLost(WORKSPACE) == WORKSPACE < 0

WorkspaceChanged_Always(g, WORKSPACE) == TRUE

\* windows.c:442: the workspace is another than the one stored.
WorkspaceChanged(g, WORKSPACE) == g.currentWorkspace # WORKSPACE

isWindowBeingDragged_Never == FALSE

\* isWindowBeingDragged(), windows.c:785-787.
isWindowBeingDragged == mIsWindowBeingDragged

\* The answers of getCurrentWorkspaceNumber: a workspace id, or negative.
WorkspaceNumbers == (0 .. MaxWorkspace) \cup {-1}

\* windows.c:416-455: from the forced update to the refresh of the list.
updateWindowsListBody(in) ==
    /\ pc = "locked"
    /\ LET counted == wcounter + 1
           forced == ForceUpdate(counted)
           changed == IF forced THEN 1 ELSE mGlobal.WindowsChanged
           n == nLocked + 1
           seen == [n |-> n, flag |-> mGlobal.WindowsChanged]
       IN
       /\ wcounter' = IF forced THEN 0 ELSE counted
       /\ nLocked' = n % (FORCE_AFTER + 1)
       /\ IF changed = 0
          THEN /\ sem' = "free"
               /\ ret' = TRUE
               /\ pc' = "idle"
               /\ ev' = Tick("unchanged") @@ seen
               /\ calls' = <<Unlock>>
               /\ UNCHANGED <<mGlobal, Flags, probeWindow, xprobe, loc>>
          ELSE \E WORKSPACE \in in.workspaces :
               IF WorkspaceLost(WORKSPACE)
               THEN /\ sem' = "free"
                    /\ ret' = TRUE
                    /\ pc' = "idle"
                    /\ ev' = Tick("workspaceLost") @@ seen
                               @@ [WORKSPACE |-> WORKSPACE]
                    /\ calls' = <<Unlock, Call("displayMessageBox",
                                    "Virtual workspace has been lost - FATAL.")>>
                    /\ mGlobal' = [mGlobal EXCEPT !.WindowsChanged = 0]
                    /\ Flags' = [Flags EXCEPT !.shutdownRequested = 1]
                    /\ UNCHANGED <<probeWindow, xprobe, loc>>
               ELSE
               \E q \in IF WorkspaceChanged(mGlobal, WORKSPACE)
                           /\ mGlobal.hasDestopWindow
                        THEN {m \in in.monitors :
                                m.number > 1 => xprobe.created < MaxProbes}
                        ELSE {[isNull |-> TRUE, number |-> 0,
                               desktop |-> <<>>]} :
               \E list \in IF isWindowBeingDragged THEN {<<>>} ELSE in.lists :
               \E mark \in IF isWindowBeingDragged THEN {FALSE} ELSE in.marks :
               LET g1 == [mGlobal EXCEPT !.WindowsChanged = 0]
                   discover == WorkspaceChanged(mGlobal, WORKSPACE)
                   d == IF discover
                        THEN getCurrentWorkspaceData(
                                 [g1 EXCEPT !.currentWorkspace = WORKSPACE],
                                 probeWindow, xprobe, q)
                        ELSE [g |-> g1, pw |-> probeWindow, xp |-> xprobe,
                              calls |-> <<>>]
                   dcalls == IF discover
                             THEN <<Call("getCurrentWorkspaceData", WORKSPACE)>>
                                  \o d.calls
                             ELSE <<>>
                   info == seen @@ [WORKSPACE |-> WORKSPACE, q |-> q]
               IN  /\ probeWindow' = d.pw
                   /\ xprobe' = d.xp
                   /\ UNCHANGED Flags
                   /\ IF isWindowBeingDragged
                      THEN /\ mGlobal' = d.g
                           /\ sem' = "free"
                           /\ ret' = TRUE
                           /\ pc' = "idle"
                           /\ ev' = Tick("drag") @@ info
                           /\ calls' = dcalls \o
                                <<Call("doAllFallenSnowWinInfoUpdates",
                                       d.g.winInfoList),
                                  Unlock>>
                           /\ UNCHANGED loc
                      ELSE /\ mGlobal' = getWinInfoForAllWindows(d.g, list, mark)
                           /\ pc' = "loop"
                           /\ loc' = [i |-> 0]
                           /\ ev' = Tick("rebuild") @@ info
                           /\ calls' = dcalls \o <<Refresh>>
                           /\ UNCHANGED <<sem, ret>>
    /\ UNCHANGED <<dragVars, activeAppVars, mUpdateWindowsLockCounter, widget, loadMeasure>>

\* A correction loop that stops before the last record.
updateWindowsListLoopTest_SkipLast ==
    /\ pc = "loop"
    /\ pc' = IF loc.i + 1 < Len(mGlobal.winInfoList) THEN "body" ELSE "check"
    /\ UNCHANGED <<dragVars, activeAppVars, mGlobal, Flags, wcounter,
                   mUpdateWindowsLockCounter, probeWindow, widget, loadMeasure, sem, xprobe, loc,
                   ret, nLocked, ev, calls>>

\* windows.c:456: the test of the correction loop.
updateWindowsListLoopTest ==
    /\ pc = "loop"
    /\ pc' = IF loc.i < Len(mGlobal.winInfoList) THEN "body" ELSE "check"
    /\ UNCHANGED <<dragVars, activeAppVars, mGlobal, Flags, wcounter,
                   mUpdateWindowsLockCounter, probeWindow, widget, loadMeasure, sem, xprobe, loc,
                   ret, nLocked, ev, calls>>

\* A correction loop whose every step corrects all the records.
updateWindowsListLoopBody_AllRecords ==
    /\ pc = "body"
    /\ mGlobal' = [mGlobal EXCEPT !.winInfoList =
            [j \in DOMAIN @ |->
                [@[j] EXCEPT !.x = @ + mGlobal.WindowOffsetX - mGlobal.SnowWinX,
                             !.y = @ + mGlobal.WindowOffsetY - mGlobal.SnowWinY]]]
    /\ loc' = [loc EXCEPT !.i = @ + 1]
    /\ pc' = "loop"
    /\ UNCHANGED <<dragVars, activeAppVars, Flags, wcounter,
                   mUpdateWindowsLockCounter, probeWindow, widget, loadMeasure, sem, xprobe,
                   ret, nLocked, ev, calls>>

\* windows.c:457-458: record i of the list is corrected in place.  When the
\* list no longer has a record i, the two writes land outside it.
updateWindowsListLoopBody ==
    /\ pc = "body"
    /\ LET k == loc.i + 1
       IN  IF k <= Len(mGlobal.winInfoList)
           THEN /\ mGlobal' = [mGlobal EXCEPT
                     !.winInfoList[k].x =
                         @ + mGlobal.WindowOffsetX - mGlobal.SnowWinX,
                     !.winInfoList[k].y =
                         @ + mGlobal.WindowOffsetY - mGlobal.SnowWinY]
                /\ UNCHANGED ev
           ELSE /\ UNCHANGED mGlobal
                /\ ev' = [ev EXCEPT !.path = "outOfBounds"]
    /\ loc' = [loc EXCEPT !.i = @ + 1]
    /\ pc' = "loop"
    /\ UNCHANGED <<dragVars, activeAppVars, Flags, wcounter,
                   mUpdateWindowsLockCounter, probeWindow, widget, loadMeasure, sem, xprobe,
                   ret, nLocked, calls>>

SnowWindowLost_Opaque(g) ==
    /\ g.SnowWin # Rootwindow
    /\ getWinInfoForWindow(g.winInfoList, g.SnowWin) = 0

\* windows.c:462-465: the overlay window is not the root window, has no
\* record in the list, and there is no transparent window.
SnowWindowLost(g) ==
    /\ g.SnowWin # Rootwindow
    /\ getWinInfoForWindow(g.winInfoList, g.SnowWin) = 0
    /\ ~g.hasTransparentWindow

\* windows.c:461-478: the sanity check of the overlay window, the hand-over
\* to the accumulation engine, the release of the semaphore.
updateWindowsListFinish ==
    /\ pc = "check"
    /\ LET lost == SnowWindowLost(mGlobal)
       IN  /\ Flags' = IF lost THEN [Flags EXCEPT !.shutdownRequested = 1]
                       ELSE Flags
           /\ calls' = calls
                \o (IF lost
                    THEN <<Call("displayMessageBox",
                                "SnowWindow has been lost - FATAL.")>>
                    ELSE <<>>)
                \o <<Call("doAllFallenSnowWinInfoUpdates",
                          mGlobal.winInfoList),
                     Unlock>>
    /\ sem' = "free"
    /\ ret' = TRUE
    /\ pc' = "idle"
    /\ UNCHANGED <<dragVars, activeAppVars, mGlobal, wcounter,
                   mUpdateWindowsLockCounter, probeWindow, widget, loadMeasure, xprobe, loc,
                   nLocked, ev>>

(***************************************************************************)
(* The drag-state tracker under the event dispatcher alone, with every     *)
(* event and every answer of the window system the bounds allow.  No       *)
(* handler reads the changed flag: here every refresh marks it, and the    *)
(* specifications of the main loop draw both outcomes.                     *)
(***************************************************************************)
AllInputs ==
    [apps |-> Windows \cup {None},
     creates |-> CreateEvents,
     maps |-> MapEvents,
     lists |-> WinLists,
     marks |-> {TRUE},
     replies |-> PointerReplies,
     focus |-> Windows \cup {None}]

EvAppWindowChange == onAppWindowChange(AllInputs)
EvWindowCreated == onWindowCreated(AllInputs)
EvWindowMapped == onWindowMapped(AllInputs)
EvWindowUnmapped == onWindowUnmapped(AllInputs)
EvWindowDestroyed == onWindowDestroyed(AllInputs)

NextEvents ==
    \/ EvAppWindowChange
    \/ EvWindowCreated
    \/ EvWindowMapped
    \/ EvWindowUnmapped
    \/ EvWindowDestroyed

SpecEvents == Init /\ [][NextEvents]_vars

(***************************************************************************)
(* The main loop: it runs one callback at a time, the tick or the handler  *)
(* of one event, and the accumulation engine's thread runs beside it.      *)
(***************************************************************************)
LoopInputs ==
    [apps |-> {None, 2},
     creates |-> {XCreateWindowEvent(2, {})},
     maps |-> {XMapEvent(2, {})},
     lists |-> {<<WinInfo(2)>>, <<WinInfo(NumWindows)>>,
                <<WinInfo(2), WinInfo(NumWindows)>>},
     marks |-> BOOLEAN,
     replies |-> {NoReply, [found |-> TRUE, state |-> POINTER_CLICKDOWN]},
     focus |-> {NumWindows},
     workspaces |-> WorkspaceNumbers,
     monitors |-> {[isNull |-> FALSE, number |-> 1, desktop |-> <<>>]}]

LoopAppWindowChange == pc = "idle" /\ onAppWindowChange(LoopInputs)
LoopWindowCreated == pc = "idle" /\ onWindowCreated(LoopInputs)
LoopWindowMapped == pc = "idle" /\ onWindowMapped(LoopInputs)
LoopWindowUnmapped == pc = "idle" /\ onWindowUnmapped(LoopInputs)
LoopWindowDestroyed == pc = "idle" /\ onWindowDestroyed(LoopInputs)
LoopTick == updateWindowsListBody(LoopInputs)

Next ==
    \/ LoopAppWindowChange
    \/ LoopWindowCreated
    \/ LoopWindowMapped
    \/ LoopWindowUnmapped
    \/ LoopWindowDestroyed
    \/ updateWindowsListEnter
    \/ LoopTick
    \/ updateWindowsListLoopTest
    \/ updateWindowsListLoopBody
    \/ updateWindowsListFinish
    \/ EngineLock
    \/ EngineUnlock

Spec == Init /\ [][Next]_vars

(***************************************************************************)
(* The main loop with every answer of the monitor and workspace queries    *)
(* the bounds allow, with and without a desktop window: the events are cut *)
(* down to one that marks the list as changed.                             *)
(***************************************************************************)
DiscoveryInputs ==
    [lists |-> {<<WinInfo(NumWindows)>>},
     marks |-> {TRUE},
     workspaces |-> WorkspaceNumbers,
     monitors |-> MonitorQueries]

InitDiscovery == \E desktop \in BOOLEAN : InitWith(NumWindows, desktop, FALSE, 0)

DiscoveryWindowDestroyed == pc = "idle" /\ onWindowDestroyed(DiscoveryInputs)
DiscoveryTick == updateWindowsListBody(DiscoveryInputs)

NextDiscovery ==
    \/ DiscoveryWindowDestroyed
    \/ updateWindowsListEnter
    \/ DiscoveryTick
    \/ updateWindowsListLoopTest
    \/ updateWindowsListLoopBody
    \/ updateWindowsListFinish

SpecDiscovery == InitDiscovery /\ [][NextDiscovery]_vars

(***************************************************************************)
(* The tick alone, for every overlay window: the root window or a window   *)
(* of its own, with and without a transparent window, and every list the   *)
(* bounds allow.                                                           *)
(***************************************************************************)
OverlayInputs ==
    [lists |-> WinLists,
     marks |-> BOOLEAN,
     workspaces |-> {0},
     monitors |-> {[isNull |-> FALSE, number |-> 1, desktop |-> <<>>]}]

InitOverlay ==
    \E snowWin \in {Rootwindow, NumWindows}, transparent \in BOOLEAN :
        InitWith(snowWin, TRUE, transparent, 0)

OverlayTick == updateWindowsListBody(OverlayInputs)

NextOverlay ==
    \/ updateWindowsListEnter
    \/ OverlayTick
    \/ updateWindowsListLoopTest
    \/ updateWindowsListLoopBody
    \/ updateWindowsListFinish

SpecOverlay == InitOverlay /\ [][NextOverlay]_vars

(***************************************************************************)
(* The main loop without the engine's thread, with the handlers that have  *)
(* an empty body.                                                          *)
(***************************************************************************)
DragAppWindowChange == pc = "idle" /\ onAppWindowChange(LoopInputs)
DragWindowCreated == pc = "idle" /\ onWindowCreated(LoopInputs)
DragWindowMapped == pc = "idle" /\ onWindowMapped(LoopInputs)
DragWindowUnmapped == pc = "idle" /\ onWindowUnmapped(LoopInputs)
DragWindowDestroyed == pc = "idle" /\ onWindowDestroyed(LoopInputs)
DragCursorChange == pc = "idle" /\ onCursorChange
DragWindowReparent == pc = "idle" /\ onWindowReparent
DragWindowChanged == pc = "idle" /\ onWindowChanged
DragWindowFocused == pc = "idle" /\ onWindowFocused
DragWindowBlurred == pc = "idle" /\ onWindowBlurred
DragTick == updateWindowsListBody(LoopInputs)

NextDrag ==
    \/ DragAppWindowChange
    \/ DragWindowCreated
    \/ DragWindowMapped
    \/ DragWindowUnmapped
    \/ DragWindowDestroyed
    \/ DragCursorChange
    \/ DragWindowReparent
    \/ DragWindowChanged
    \/ DragWindowFocused
    \/ DragWindowBlurred
    \/ updateWindowsListEnter
    \/ DragTick
    \/ updateWindowsListLoopTest
    \/ updateWindowsListLoopBody
    \/ updateWindowsListFinish

SpecDrag == Init /\ [][NextDrag]_vars

(***************************************************************************)
(* The handlers on a thread of their own: an event is handled at any       *)
(* point of the tick.                                                      *)
(***************************************************************************)
ConcInputs ==
    [apps |-> {None, 2},
     creates |-> {XCreateWindowEvent(2, {})},
     maps |-> {XMapEvent(2, {})},
     lists |-> {<<>>, <<WinInfo(2), WinInfo(NumWindows)>>},
     marks |-> {TRUE},
     replies |-> {NoReply},
     focus |-> {None},
     workspaces |-> {0},
     monitors |-> {[isNull |-> FALSE, number |-> 1, desktop |-> <<>>]}]

ConcAppWindowChange == onAppWindowChange(ConcInputs)
ConcWindowCreated == onWindowCreated(ConcInputs)
ConcWindowMapped == onWindowMapped(ConcInputs)
ConcWindowUnmapped == onWindowUnmapped(ConcInputs)
ConcWindowDestroyed == onWindowDestroyed(ConcInputs)
ConcTick == updateWindowsListBody(ConcInputs)

NextConc ==
    \/ ConcAppWindowChange
    \/ ConcWindowCreated
    \/ ConcWindowMapped
    \/ ConcWindowUnmapped
    \/ ConcWindowDestroyed
    \/ updateWindowsListEnter
    \/ ConcTick
    \/ updateWindowsListLoopTest
    \/ updateWindowsListLoopBody
    \/ updateWindowsListFinish
    \/ EngineLock
    \/ EngineUnlock

SpecConc == Init /\ [][NextConc]_vars

(***************************************************************************)
(* What the claims speak of, stated apart from the definitions above.      *)
(***************************************************************************)
(* getDragWindowOf by itself: the list is refreshed with every sequence of  *)
(* records the bounds allow, the root window and repeated windows among    *)
(* them, and the function is asked about every window and None.            *)
(***************************************************************************)
AnyLists == SeqsUpTo({WinInfo(w) : w \in Windows}, MaxListLen)

ResolveRefresh ==
    \E list \in AnyLists, mark \in BOOLEAN :
        /\ mGlobal' = getWinInfoForAllWindows(mGlobal, list, mark)
        /\ ev' = [type |-> "getWinInfoForAllWindows"]
        /\ calls' = <<Refresh>>
        /\ UNCHANGED <<dragVars, activeAppVars, Flags, wcounter,
                       mUpdateWindowsLockCounter, probeWindow, widget, loadMeasure, sem, xprobe,
                       pc, loc, ret, nLocked>>

ResolveDragWindow ==
    \E windowNode \in Windows \cup {None} :
        /\ ev' = [type |-> "getDragWindowOf", windowNode |-> windowNode,
                  result |-> getDragWindowOf(mGlobal.winInfoList, windowNode)]
        /\ calls' = <<>>
        /\ UNCHANGED <<dragVars, activeAppVars, mGlobal, Flags, wcounter,
                       mUpdateWindowsLockCounter, probeWindow, widget, loadMeasure, sem, xprobe,
                       pc, loc, ret, nLocked>>

NextResolve ==
    \/ ResolveRefresh
    \/ ResolveDragWindow

SpecResolve == Init /\ [][NextResolve]_vars

(***************************************************************************)
(* getXineramaScreenInfo, windows.c:226-270, by itself: for every array    *)
(* XineramaQueryScreens can answer within the bounds, and NULL, and every  *)
(* screen asked for from below zero to beyond the array.                   *)
(***************************************************************************)
\* The geometries of the screens tried: the widest is not the highest.
XineramaScreens ==
    {[x_org |-> 0, y_org |-> 0, width |-> 9, height |-> 3],
     [x_org |-> 9, y_org |-> 0, width |-> 4, height |-> 6],
     [x_org |-> 0, y_org |-> 6, width |-> 5, height |-> 5]}

\* XineramaQueryScreens: NULL, or an array of 1 .. MaxMonitors screens.
XineramaReplies ==
    {[isNull |-> TRUE, infoArray |-> <<>>]}
        \cup {[isNull |-> FALSE, infoArray |-> a] :
                a \in SeqsUpTo(XineramaScreens, MaxMonitors) \ {<<>>}}

\* What lies behind the array, read as a screen: any value.
BeyondArray ==
    XineramaScreens \cup {[x_org |-> -7, y_org |-> -7, width |-> -7,
                           height |-> -7]}

\* infoArray[i] of the C code, i from 0; beyond is what a read outside the
\* array yields.
ReadScreen(infoArray, i, beyond) ==
    IF i + 1 \in DOMAIN infoArray THEN infoArray[i + 1] ELSE beyond

BoundedRequestScreen_FromZero(requestScreen, infoArrayLength) ==
    IF requestScreen < 0 THEN 0
    ELSE IF requestScreen <= infoArrayLength THEN requestScreen
    ELSE infoArrayLength

\* windows.c:240-242.
BoundedRequestScreen(requestScreen, infoArrayLength) ==
    IF requestScreen <= infoArrayLength THEN requestScreen
    ELSE infoArrayLength

\* windows.c:258-265: the largest of the values, and 0 if none is above 0.
RECURSIVE LargestOf(_, _)
LargestOf(values, i) ==
    IF i > Len(values) THEN 0
    ELSE LET rest == LargestOf(values, i + 1)
         IN  IF values[i] > rest THEN values[i] ELSE rest

\* getXineramaScreenInfo: the value returned, the four results as they are
\* after the call (result holds them as they were before), and the indices
\* of infoArray that were read.
getXineramaScreenInfo(q, requestScreen, result, beyond) ==
    IF q.isNull
    THEN [ret |-> 0, result |-> result, reads |-> {}]
    ELSE LET infoArrayLength == Len(q.infoArray)
             boundedRequestScreeen ==
                 BoundedRequestScreen(requestScreen, infoArrayLength)
         IN  IF boundedRequestScreeen >= 0
             THEN LET info == ReadScreen(q.infoArray, boundedRequestScreeen,
                                         beyond)
                  IN  [ret |-> infoArrayLength,
                       result |-> [PosX |-> info.x_org, PosY |-> info.y_org,
                                   Width |-> info.width,
                                   Height |-> info.height],
                       reads |-> {boundedRequestScreeen}]
             ELSE [ret |-> infoArrayLength,
                   result |->
                      [PosX |-> 0, PosY |-> 0,
                       Width |-> LargestOf(
                           [i \in DOMAIN q.infoArray |-> q.infoArray[i].width], 1),
                       Height |-> LargestOf(
                           [i \in DOMAIN q.infoArray |-> q.infoArray[i].height], 1)],
                   reads |-> 0 .. (infoArrayLength - 1)]

\* The results before the call: the caller's variables, not yet set.
ResultUnset == [PosX |-> -1, PosY |-> -1, Width |-> -1, Height |-> -1]

XineramaScreenInfo ==
    \E q \in XineramaReplies, beyond \in BeyondArray,
       requestScreen \in -2 .. (MaxMonitors + 1) :
        /\ ev' = [type |-> "getXineramaScreenInfo", q |-> q,
                  requestScreen |-> requestScreen,
                  out |-> getXineramaScreenInfo(q, requestScreen, ResultUnset,
                                                beyond)]
        /\ calls' = IF q.isNull THEN <<Call("XineramaQueryScreens", None)>>
                    ELSE <<Call("XineramaQueryScreens", None),
                           Call("XFree", None)>>
        /\ UNCHANGED <<dragVars, activeAppVars, mGlobal, Flags, wcounter,
                       mUpdateWindowsLockCounter, probeWindow, widget, loadMeasure, sem, xprobe,
                       pc, loc, ret, nLocked>>

NextXinerama == XineramaScreenInfo

SpecXinerama == Init /\ [][NextXinerama]_vars

(***************************************************************************)
(* The transparent window by itself: it is created, at most MaxCreates     *)
(* times, drawn, and loses its settings.                                   *)
(***************************************************************************)
TransUnchanged ==
    UNCHANGED <<dragVars, activeAppVars, mGlobal, Flags, wcounter,
                mUpdateWindowsLockCounter, probeWindow, sem, xprobe,
                pc, loc, ret, nLocked, loadMeasure>>

TransCreate ==
    \E sticky \in {0, 1}, below \in {0, 1, 2}, dock \in {0, 1},
       composited \in BOOLEAN :
        LET out == createTransparentWindow(widget, sticky, below, dock,
                                           composited)
        IN  /\ ~widget.closed
            /\ widget.handlers < MaxCreates
            /\ widget' = out.widget
            /\ ev' = [type |-> "createTransparentWindow", sticky |-> sticky,
                      below |-> below, dock |-> dock, ret |-> out.ret,
                      applied |-> out.applied]
            /\ calls' = out.calls
            /\ TransUnchanged

TransDraw ==
    LET out == DrawHandlers(widget, widget.handlers)
    IN  /\ widget.shown
        /\ ~widget.closed
        /\ widget' = out.widget
        /\ ev' = [type |-> "draw", applied |-> out.applied]
        /\ calls' = out.calls
        /\ TransUnchanged

\* transwindow.c:203-205: in some environments the settings of the window
\* disappear.
TransSettingsLost ==
    /\ widget.shown
    /\ ~widget.closed
    /\ \E above, below, sticky \in {"unset", "on", "off"} :
          widget' = [widget EXCEPT !.keep_above = above,
                                   !.keep_below = below,
                                   !.sticky = sticky]
    /\ widget' # widget
    /\ ev' = [type |-> "settingsLost"]
    /\ calls' = <<>>
    /\ TransUnchanged

NextTrans ==
    \/ TransCreate
    \/ TransDraw
    \/ TransSettingsLost

SpecTrans == Init /\ [][NextTrans]_vars

(***************************************************************************)
(* The load monitor by itself, called from the main loop time after time,  *)
(* for every choice of thresholds with LOAD_PRESSURE_LOW <= 0 <=           *)
(* LOAD_PRESSURE_HIGH within the bounds.                                   *)
(***************************************************************************)
InitLoad ==
    \E low \in (0 - MaxPressure) .. 0, high \in 0 .. MaxPressure,
       max \in 0 .. MaxWarnings :
        /\ InitWindows(NumWindows, TRUE, FALSE, 0)
        /\ loadMeasure = NewLoadMeasure(low, high, max)

LoadMeasure ==
    \E late \in BOOLEAN, NoMenu \in {0, 1} :
        LET out == execLoadMeasureBackgroundThread(loadMeasure, late, NoMenu)
        IN  /\ loadMeasure' = out.m
            /\ ev' = [type |-> "execLoadMeasureBackgroundThread",
                      late |-> late, NoMenu |-> NoMenu, ret |-> out.ret]
            /\ calls' = out.calls
            /\ UNCHANGED <<dragVars, activeAppVars, mGlobal, Flags, wcounter,
                           mUpdateWindowsLockCounter, probeWindow, sem,
                           xprobe, pc, loc, ret, nLocked, widget>>

NextLoad == LoadMeasure

SpecLoad == InitLoad /\ [][NextLoad]_vars

(***************************************************************************)
Idle == ~mIsWindowBeingDragged /\ mWindowBeingDragged = None
Dragging(w) == mIsWindowBeingDragged /\ mWindowBeingDragged = w
DraggingNext(w) == mIsWindowBeingDragged' /\ mWindowBeingDragged' = w

\* The calls of fn among seq, in order.
CallsOf(seq, fn) == SelectSeq(seq, LAMBDA c : c.fn = fn)

InSnapshot(list, w) == \E i \in 1 .. Len(list) : list[i].window = w

\* w, parent(w), parent(parent(w)), ... as far as XQueryTree answers.
RECURSIVE AncestorChain(_)
AncestorChain(w) ==
    IF ~XQueryTreeOk(w) THEN <<w>>
    ELSE <<w>> \o AncestorChain(XQueryTreeParent(w))

\* The first window of w's chain that is in the list, None if there is none.
ResolvedInSnapshot(list, w) ==
    LET chain == AncestorChain(w)
        hits == {k \in 1 .. Len(chain) : InSnapshot(list, chain[k])}
    IN  IF hits = {} THEN None
        ELSE chain[CHOOSE k \in hits : \A j \in hits : k <= j]

(***************************************************************************)
(* C1.  Right after the handler of a window-unmapped or window-destroyed   *)
(* event DragState is Idle: no window is being dragged and the dragged     *)
(* window is None.  As it holds after every such event, a further unmap or *)
(* destroy leaves it Idle.                                                 *)
(***************************************************************************)
C1_IdleAfterUnmapOrDestroy ==
    ev.type \in {"UnmapNotify", "DestroyNotify"} => Idle

\* An unmap or destroy event has ended a drag.
C1_Witness ==
    /\ ev.type \in {"UnmapNotify", "DestroyNotify"}
    /\ ev.wasDragging
    /\ Idle

(***************************************************************************)
(* C2.  A window-created event records its window as the drag-window       *)
(* candidate if and only if it is non-synthetic, its parent is the root,   *)
(* x = 0, y = 0, its size is the overlay's, its border width is 0 and it   *)
(* is not override-redirect; otherwise the candidate stays as it was.      *)
(***************************************************************************)
C2_Signature(e) ==
    <<e.send_event, e.parent, e.x, e.y, e.width, e.height, e.border_width,
      e.override_redirect>>
        = <<0, Rootwindow, 0, 0, SnowWinWidth, SnowWinHeight, 0, 0>>

C2_CandidateRecordedIffSignature ==
    [][ev'.type = "CreateNotify" =>
          mActiveAppDragWindowCandidate' =
              IF C2_Signature(ev') THEN ev'.window
              ELSE mActiveAppDragWindowCandidate]_vars

\* A created window that misses the signature has left an earlier candidate
\* in place.
C2_Witness ==
    /\ ev.type = "CreateNotify"
    /\ ~C2_Signature(ev)
    /\ mActiveAppDragWindowCandidate \notin {None, ev.window}

(***************************************************************************)
(* C3.  A window-mapped event that matches the recorded candidate          *)
(* (non-synthetic, the candidate's id, reported on the root, not           *)
(* override-redirect) while the active application window is not None      *)
(* leaves DragState at DraggingKeyboard(activeAppWindow) with               *)
(* clear-all called exactly once and no single-window clear.               *)
(***************************************************************************)
C3_MatchesCandidate(e) ==
    /\ mActiveAppDragWindowCandidate # None
    /\ e.type = "MapNotify"
    /\ e.send_event = 0
    /\ e.window = mActiveAppDragWindowCandidate
    /\ e.event = Rootwindow
    /\ e.override_redirect = 0

C3_KeyboardDrag ==
    /\ DraggingNext(mActiveAppWindow)
    /\ Len(CallsOf(calls', "removeFallenSnowFromAllWindows")) = 1
    /\ Len(CallsOf(calls', "removeFallenSnowFromWindow")) = 0

\* The claim as made: for any matching event.
C3_AsClaimed ==
    [][(C3_MatchesCandidate(ev') /\ mActiveAppWindow # None)
          => C3_KeyboardDrag]_vars

\* The click-and-hold heuristic takes the event: no drag is on, a button is
\* held, and the focused window resolves to a window of the new Snapshot.
C3_ClickTakesEvent ==
    /\ ~mIsWindowBeingDragged
    /\ ButtonHeld(ev'.reply)
    /\ ResolvedInSnapshot(mGlobal'.winInfoList, ev'.focusedWindow) # None

\* The claim as amended: for any matching event the click-and-hold heuristic
\* does not take.
C3_KeyboardDragUnlessClick ==
    [][(C3_MatchesCandidate(ev') /\ mActiveAppWindow # None
            /\ ~C3_ClickTakesEvent)
          => C3_KeyboardDrag]_vars

\* The candidate's map event has started a keyboard drag of the active
\* application window.
C3_Witness ==
    /\ ev.type = "MapNotify"
    /\ ev.window = mActiveAppDragWindowCandidate
    /\ mActiveAppWindow # None
    /\ Dragging(mActiveAppWindow)
    /\ Len(CallsOf(calls, "removeFallenSnowFromAllWindows")) = 1

(***************************************************************************)
(* C4.  A window-mapped event received while Idle, with a button held      *)
(* according to the pointer query and the focused window resolving (self   *)
(* or nearest ancestor) to a window r of the current Snapshot, leaves      *)
(* DragState at DraggingClick(r), and the accumulation engine is told      *)
(* exactly once to remove the snow of r and of no other window.            *)
(***************************************************************************)
C4_ClickDrag ==
    [][(/\ ev'.type = "MapNotify"
        /\ ~mIsWindowBeingDragged
        /\ ButtonHeld(ev'.reply)
        /\ ResolvedInSnapshot(mGlobal'.winInfoList, ev'.focusedWindow) # None)
       => LET r == ResolvedInSnapshot(mGlobal'.winInfoList, ev'.focusedWindow)
          IN  /\ DraggingNext(r)
              /\ CallsOf(calls', "removeFallenSnowFromWindow")
                    = <<Call("removeFallenSnowFromWindow", r)>>
              /\ Len(CallsOf(calls', "removeFallenSnowFromAllWindows")) = 0]_vars

\* A click drag of an ancestor of the focused window has started, with other
\* bits set in the pointer state.
C4_Witness ==
    /\ ev.type = "MapNotify"
    /\ ev.reply.state = POINTER_CLICKDOWN + 16
    /\ ev.focusedWindow # None
    /\ mWindowBeingDragged \notin {None, ev.focusedWindow}
    /\ Dragging(ResolvedInSnapshot(mGlobal.winInfoList, ev.focusedWindow))
    /\ Len(CallsOf(calls, "removeFallenSnowFromWindow")) = 1

(***************************************************************************)
(* C5.  After an active-application-changed event for window w: DragState  *)
(* is Idle, the candidate is None, the active-app window is w, and the     *)
(* active-app position is that of w's record in the Snapshot, or           *)
(* mINVALID_POSITION in both coordinates when w has no record.             *)
(***************************************************************************)
C5_AfterAppWindowChange ==
    ev.type = "ActiveAppChange" =>
        /\ Idle
        /\ mActiveAppDragWindowCandidate = None
        /\ mActiveAppWindow = ev.window
        /\ \A i \in 1 .. Len(mGlobal.winInfoList) :
              mGlobal.winInfoList[i].window = ev.window =>
                  /\ mActiveAppXPos = mGlobal.winInfoList[i].x
                  /\ mActiveAppYPos = mGlobal.winInfoList[i].y
        /\ ~InSnapshot(mGlobal.winInfoList, ev.window) =>
              /\ mActiveAppXPos = mINVALID_POSITION
              /\ mActiveAppYPos = mINVALID_POSITION

\* The active application changed, during a drag, to a window that is in the
\* Snapshot.
C5_Witness ==
    /\ ev.type = "ActiveAppChange"
    /\ ev.wasDragging
    /\ InSnapshot(mGlobal.winInfoList, ev.window)
    /\ mActiveAppXPos # mINVALID_POSITION


(***************************************************************************)
(* C6.  Of the ticks that take the semaphore, counted from start-up, the   *)
(* first nine of every ten skip when the changed flag is not set at their  *)
(* entry: they release the semaphore and return, asking neither for the    *)
(* workspace nor for the list.  Every tenth goes on whatever the flag, as  *)
(* a tick that found the flag set does; it refreshes the Snapshot unless   *)
(* the workspace is lost or a window is being dragged.                     *)
(***************************************************************************)
TickCounted == ev.type = "updateWindowsList" /\ "n" \in DOMAIN ev

C6_ForcedEveryTenthTick ==
    TickCounted =>
        /\ ev.n \in 1 .. FORCE_AFTER + 1
        /\ ev.flag = 0 => (ev.path = "unchanged" <=> ev.n <= FORCE_AFTER)
        /\ ev.path = "unchanged" => calls = <<Unlock>>
        /\ ev.n = FORCE_AFTER + 1 =>
              /\ ev.path \in {"workspaceLost", "drag", "rebuild"}
              /\ ev.path = "workspaceLost" <=> ev.WORKSPACE < 0
              /\ ev.path = "drag" <=>
                    (ev.WORKSPACE >= 0 /\ mIsWindowBeingDragged)

\* C6 as the sentence has it: the tenth tick refreshes the Snapshot.
C6_AsClaimed ==
    (TickCounted /\ ev.n = FORCE_AFTER + 1) => ev.path = "rebuild"

C6_Witness ==
    /\ TickCounted
    /\ ev.n = FORCE_AFTER + 1
    /\ ev.flag = 0
    /\ ev.path = "rebuild"
    /\ pc = "idle"
    /\ CallsOf(calls, "getWinInfoForAllWindows") # <<>>

(***************************************************************************)
(* C7.  A tick that finds the semaphore taken changes nothing of           *)
(* DragState, ActiveAppState, the Snapshot, the changed flag and the       *)
(* stored workspace, and returns true; so does every such tick of a row.   *)
(***************************************************************************)
C7_LockBusyTickChangesNothing ==
    [][(ev'.type = "updateWindowsList" /\ ev'.path = "lockbusy") =>
          /\ UNCHANGED <<dragVars, activeAppVars>>
          /\ mGlobal'.winInfoList = mGlobal.winInfoList
          /\ mGlobal'.WindowsChanged = mGlobal.WindowsChanged
          /\ mGlobal'.currentWorkspace = mGlobal.currentWorkspace
          /\ ret' = TRUE]_vars

\* The third tick of a row that finds the semaphore taken, with a drag on
\* and the changed flag set.
C7_Witness ==
    /\ ev.type = "updateWindowsList"
    /\ ev.path = "lockbusy"
    /\ mUpdateWindowsLockCounter = maxSoftTries
    /\ sem = "engine"
    /\ mIsWindowBeingDragged
    /\ mGlobal.WindowsChanged = 1
    /\ ret = TRUE

(***************************************************************************)
(* C8.  With the handlers running at any point of the tick, the tick's     *)
(* correction loop finds the record it is about to correct in the          *)
(* Snapshot: the length it tested is the length of the list it writes to.  *)
(***************************************************************************)
C8_ReaderSeesWholeSnapshot ==
    pc = "body" => loc.i < Len(mGlobal.winInfoList)

(***************************************************************************)
(* C9.  Every step that changes the Snapshot, DragState or ActiveAppState  *)
(* is taken by a party that holds the FallenSnow semaphore.                *)
(***************************************************************************)
C9_MutationsUnderLock ==
    [][(\/ mGlobal'.winInfoList # mGlobal.winInfoList
        \/ dragVars' # dragVars
        \/ activeAppVars' # activeAppVars)
       => (sem = "tick" /\ ev'.type = "updateWindowsList")]_vars

(***************************************************************************)
(* C10.  A discovery pass whose monitor query reports one monitor leaves   *)
(* the visible workspaces as the current workspace alone, and creates,     *)
(* destroys, maps, moves and unmaps no probe window.                       *)
(***************************************************************************)
ProbeOperations ==
    {"XCreateWindow", "XDestroyWindow", "xdo_map_window", "xdo_move_window",
     "xdo_unmap_window"}

DiscoveryWithOneMonitor ==
    /\ ev.type = "updateWindowsList"
    /\ CallsOf(calls, "getCurrentWorkspaceData") # <<>>
    /\ mGlobal.hasDestopWindow
    /\ ev.q.number = 1

C10_OneMonitorNoProbeOperation ==
    DiscoveryWithOneMonitor =>
        /\ mGlobal.NVisWorkSpaces = 1
        /\ mGlobal.VisWorkSpaces[1] = mGlobal.currentWorkspace
        /\ \A k \in 1 .. Len(calls) : calls[k].fn \notin ProbeOperations

(***************************************************************************)
(* C11.  A discovery pass with N > 1 monitors moves the probe window N     *)
(* times, the k-th time to the centre of monitor k, and leaves N visible   *)
(* workspaces; when no query fails, the i-th is the workspace reported for *)
(* the probe at monitor i.                                                 *)
(***************************************************************************)
MultiMonitorPass ==
    /\ ev.type = "updateWindowsList"
    /\ CallsOf(calls, "getCurrentWorkspaceData") # <<>>
    /\ mGlobal.hasDestopWindow
    /\ ~ev.q.isNull
    /\ ev.q.number > 1

ProbeMoves == CallsOf(calls, "xdo_move_window")

NoQueryFails ==
    \A i \in 1 .. ev.q.number : ev.q.desktop[i].rc = "XDO_SUCCESS"

C11_OneMovePerMonitor ==
    MultiMonitorPass =>
        /\ Len(ProbeMoves) = ev.q.number
        /\ \A k \in 1 .. ev.q.number :
              ProbeMoves[k].arg =
                  <<ScreenInfo(k).x_org + (ScreenInfo(k).width \div 2),
                    ScreenInfo(k).y_org + (ScreenInfo(k).height \div 2)>>
        /\ mGlobal.NVisWorkSpaces = ev.q.number
        /\ NoQueryFails =>
              \A i \in 1 .. ev.q.number :
                  mGlobal.VisWorkSpaces[i] = ev.q.desktop[i].desktop

C11_Witness ==
    /\ MultiMonitorPass
    /\ ev.q.number = MaxMonitors
    /\ NoQueryFails
    /\ ev.q.desktop[1].desktop # ev.q.desktop[2].desktop
    /\ pc = "idle"

(***************************************************************************)
(* C12.  A tick returns false exactly when shutdown is requested at its    *)
(* entry; such a tick takes no semaphore and changes nothing.  The request *)
(* is never withdrawn, so every tick after it returns false.               *)
(***************************************************************************)
TickEntered ==
    /\ pc = "idle"
    /\ ev'.type = "updateWindowsList"
    /\ ev'.path \in {"shutdown", "disabled", "lockbusy", "locked"}

TickProceeds ==
    /\ pc = "locked"
    /\ ev'.path \in {"workspaceLost", "drag", "rebuild"}

C13_WorkspaceLost ==
    [][TickProceeds =>
          /\ ev'.path = "workspaceLost" <=> ev'.WORKSPACE < 0
          /\ ev'.path = "workspaceLost" =>
                /\ Len(CallsOf(calls', "displayMessageBox")) = 1
                /\ Len(CallsOf(calls', "unlockFallenSnowSemaphore")) = 1
                /\ CallsOf(calls', "getCurrentWorkspaceData") = <<>>
                /\ CallsOf(calls', "getWinInfoForAllWindows") = <<>>
                /\ CallsOf(calls', "doAllFallenSnowWinInfoUpdates") = <<>>
                /\ Flags'.shutdownRequested = 1
                /\ sem' = "free"
                /\ pc' = "idle"
                /\ mGlobal'.currentWorkspace = mGlobal.currentWorkspace
                /\ mGlobal'.winInfoList = mGlobal.winInfoList
                /\ mGlobal'.NVisWorkSpaces = mGlobal.NVisWorkSpaces
                /\ mGlobal'.VisWorkSpaces = mGlobal.VisWorkSpaces
                /\ UNCHANGED <<probeWindow, xprobe>>]_vars

C13_Witness ==
    /\ ev.type = "updateWindowsList"
    /\ ev.path = "workspaceLost"
    /\ Flags.shutdownRequested = 1
    /\ mGlobal.currentWorkspace = MaxWorkspace
    /\ mGlobal.winInfoList # <<>>
    /\ sem = "free"

(***************************************************************************)
(* C14.  A tick that rebuilds the list shows the lost-overlay message and  *)
(* requests shutdown exactly when the overlay window is not the root       *)
(* window, has no record in the refreshed list, and there is no            *)
(* transparent window; otherwise it requests no shutdown.                  *)
(***************************************************************************)
OverlayLostMessage == Call("displayMessageBox", "SnowWindow has been lost - FATAL.")

OverlayMissing ==
    /\ mGlobal.SnowWin # Rootwindow
    /\ ~InSnapshot(mGlobal.winInfoList, mGlobal.SnowWin)
    /\ ~mGlobal.hasTransparentWindow

C14_OverlayLostIff ==
    [][pc = "check" =>
          IF OverlayMissing
          THEN /\ Flags'.shutdownRequested = 1
               /\ Len(SelectSeq(calls', LAMBDA c : c = OverlayLostMessage)) = 1
          ELSE /\ Flags' = Flags
               /\ Flags'.shutdownRequested = 0
               /\ CallsOf(calls', "displayMessageBox") = <<>>]_vars

C14_Witness ==
    /\ ev.type = "updateWindowsList"
    /\ ev.path = "rebuild"
    /\ pc = "idle"
    /\ Flags.shutdownRequested = 1
    /\ mGlobal.winInfoList # <<>>
    /\ OverlayLostMessage \in {calls[k] : k \in 1 .. Len(calls)}

(***************************************************************************)
(* C15.  A tick that has a workspace number runs the discovery exactly     *)
(* when that number is not the stored one.  The number is stored before    *)
(* the discovery runs: a slot the discovery fills with the current         *)
(* workspace holds the new number.  A tick whose number is the stored one  *)
(* does nothing with a probe window and leaves the visible workspaces.     *)
(***************************************************************************)
TickHasWorkspace ==
    /\ pc = "locked"
    /\ ev'.path \in {"drag", "rebuild"}

FallsBackAt(q, i) ==
    \/ q.isNull /\ i = 1
    \/ q.number = 1 /\ i = 1
    \/ q.number > 1 /\ i <= q.number /\ q.desktop[i].rc = "XDO_ERROR"

C15_DiscoveryIffWorkspaceChanged ==
    [][TickHasWorkspace =>
          LET differs == ev'.WORKSPACE # mGlobal.currentWorkspace
          IN  /\ CallsOf(calls', "getCurrentWorkspaceData") # <<>> <=> differs
              /\ mGlobal'.currentWorkspace = ev'.WORKSPACE
              /\ differs =>
                    \A i \in 1 .. MaxMonitors :
                        (~mGlobal.hasDestopWindow /\ i = 1) \/
                        (mGlobal.hasDestopWindow /\ FallsBackAt(ev'.q, i))
                        => mGlobal'.VisWorkSpaces[i] = ev'.WORKSPACE
              /\ ~differs =>
                    /\ \A k \in 1 .. Len(calls') :
                          calls'[k].fn \notin ProbeOperations
                    /\ mGlobal'.NVisWorkSpaces = mGlobal.NVisWorkSpaces
                    /\ mGlobal'.VisWorkSpaces = mGlobal.VisWorkSpaces
                    /\ UNCHANGED <<probeWindow, xprobe>>]_vars

\* A tick that found another workspace and ran a discovery in which a query
\* failed.
C15_Witness ==
    /\ ev.type = "updateWindowsList"
    /\ ev.path = "rebuild"
    /\ CallsOf(calls, "getCurrentWorkspaceData") # <<>>
    /\ ev.WORKSPACE = MaxWorkspace
    /\ mGlobal.currentWorkspace = MaxWorkspace
    /\ ev.q.number > 1
    /\ ev.q.desktop[1].rc = "XDO_ERROR"
    /\ mGlobal.VisWorkSpaces[1] = MaxWorkspace

(***************************************************************************)
(* C16.  A tick that reaches the drag check while a window is being        *)
(* dragged leaves the list as it is: no refresh, no offset correction, no  *)
(* sanity check of the overlay.  It hands the list to the accumulation     *)
(* engine once and then releases the semaphore.                            *)
(***************************************************************************)
C16_DragTickKeepsSnapshot ==
    [][(TickHasWorkspace /\ mIsWindowBeingDragged) =>
          /\ ev'.path = "drag"
          /\ mGlobal'.winInfoList = mGlobal.winInfoList
          /\ CallsOf(calls', "getWinInfoForAllWindows") = <<>>
          /\ CallsOf(calls', "displayMessageBox") = <<>>
          /\ CallsOf(calls', "doAllFallenSnowWinInfoUpdates") =
                <<Call("doAllFallenSnowWinInfoUpdates", mGlobal.winInfoList)>>
          /\ Len(CallsOf(calls', "unlockFallenSnowSemaphore")) = 1
          /\ calls'[Len(calls')] = Unlock
          /\ calls'[Len(calls') - 1].fn = "doAllFallenSnowWinInfoUpdates"
          /\ Flags' = Flags
          /\ sem' = "free"
          /\ pc' = "idle"
          /\ ret' = TRUE]_vars

C16_Witness ==
    /\ ev.type = "updateWindowsList"
    /\ ev.path = "drag"
    /\ mIsWindowBeingDragged
    /\ mGlobal.winInfoList # <<>>
    /\ ev.WORKSPACE # 0
    /\ pc = "idle"
    /\ sem = "free"

(***************************************************************************)
(* C17.  Only the handlers of the active-app-change, create, map, unmap    *)
(* and destroy events change DragState, the candidate or ActiveAppState:   *)
(* no step of the tick, with or without a discovery, does.  A drag starts  *)
(* only in the handler of a map event, under the click or the keyboard     *)
(* heuristic.                                                              *)
(***************************************************************************)
DragStarts == ~mIsWindowBeingDragged /\ mIsWindowBeingDragged'

C17_OnlyHandlersChangeDragState ==
    [][/\ (dragVars' # dragVars \/ activeAppVars' # activeAppVars) =>
             /\ ev'.type \in {"ActiveAppChange", "CreateNotify", "MapNotify",
                              "UnmapNotify", "DestroyNotify"}
             /\ pc = "idle"
             /\ pc' = "idle"
       /\ DragStarts =>
             /\ ev'.type = "MapNotify"
             /\ \/ CallsOf(calls', "removeFallenSnowFromWindow") # <<>>
                \/ CallsOf(calls', "removeFallenSnowFromAllWindows") # <<>>]_vars

\* A discovery has run in a tick during a drag, and the drag is still on.
C17_Witness ==
    /\ ev.type = "updateWindowsList"
    /\ ev.path = "drag"
    /\ CallsOf(calls, "getCurrentWorkspaceData") # <<>>
    /\ mIsWindowBeingDragged
    /\ mWindowBeingDragged # None
    /\ mActiveAppWindow # None

(***************************************************************************)
(* C18.  In a pass with several monitors, a query that fails at monitor i  *)
(* leaves the stored current workspace in slot i; the pass goes on to the  *)
(* monitors after it, and every other slot holds what its own query        *)
(* answered.                                                               *)
(***************************************************************************)
C18_FailedQueryFallsBack ==
    MultiMonitorPass =>
        /\ Len(CallsOf(calls, "xdo_get_desktop_for_window")) = ev.q.number
        /\ \A i \in 1 .. ev.q.number :
              mGlobal.VisWorkSpaces[i] =
                  IF ev.q.desktop[i].rc = "XDO_ERROR"
                  THEN mGlobal.currentWorkspace
                  ELSE ev.q.desktop[i].desktop

\* The query failed at the second of three monitors; the others answered a
\* workspace that is not the current one.
C18_Witness ==
    /\ MultiMonitorPass
    /\ ev.q.number = MaxMonitors
    /\ ev.q.desktop[2].rc = "XDO_ERROR"
    /\ ev.q.desktop[1].rc = "XDO_SUCCESS"
    /\ ev.q.desktop[MaxMonitors].rc = "XDO_SUCCESS"
    /\ mGlobal.VisWorkSpaces[2] = mGlobal.currentWorkspace
    /\ mGlobal.VisWorkSpaces[1] # mGlobal.currentWorkspace
    /\ mGlobal.VisWorkSpaces[MaxMonitors] # mGlobal.currentWorkspace

(***************************************************************************)
(* C19.  A pass with several monitors sets both offsets to 0 exactly when  *)
(* two monitors next to each other have different workspaces in their      *)
(* slots; when all have the same, the offsets stay as they were.           *)
(***************************************************************************)
MultiMonitorPassStep ==
    /\ TickHasWorkspace
    /\ CallsOf(calls', "getCurrentWorkspaceData") # <<>>
    /\ mGlobal.hasDestopWindow
    /\ ~ev'.q.isNull
    /\ ev'.q.number > 1

C19_OffsetResetIffNeighboursDiffer ==
    [][MultiMonitorPassStep =>
          LET vis == mGlobal'.VisWorkSpaces
              differ == \E i \in 1 .. ev'.q.number - 1 : vis[i] # vis[i + 1]
          IN  IF differ
              THEN /\ mGlobal'.WindowOffsetX = 0
                   /\ mGlobal'.WindowOffsetY = 0
              ELSE /\ mGlobal'.WindowOffsetX = mGlobal.WindowOffsetX
                   /\ mGlobal'.WindowOffsetY = mGlobal.WindowOffsetY]_vars

\* The offsets, which start-up leaves nonzero, are 0 after a pass whose last
\* two monitors differ while its first two agree.
C19_Witness ==
    /\ MultiMonitorPass
    /\ ev.q.number = MaxMonitors
    /\ mGlobal.VisWorkSpaces[1] = mGlobal.VisWorkSpaces[2]
    /\ mGlobal.VisWorkSpaces[MaxMonitors - 1] # mGlobal.VisWorkSpaces[MaxMonitors]
    /\ mGlobal.WindowOffsetX = 0
    /\ mGlobal.WindowOffsetY = 0
    /\ xprobe.created = 1

(***************************************************************************)
(* C20.  At most one probe window exists at any time, and none is mapped   *)
(* when a pass has returned.  A pass that asks for the monitors first      *)
(* requests the destruction of the probe window created last, if one was   *)
(* ever created; with several monitors it then creates a new window, maps  *)
(* it, and unmaps it before it returns; with one monitor it creates none.  *)
(***************************************************************************)
PassStep ==
    /\ TickHasWorkspace
    /\ CallsOf(calls', "getCurrentWorkspaceData") # <<>>
    /\ mGlobal.hasDestopWindow

ProbeLifecycle(seq) ==
    SelectSeq(seq, LAMBDA c : c.fn \in {"XDestroyWindow", "XCreateWindow",
                                        "xdo_map_window", "xdo_unmap_window"})

C20_ProbeWindowLifecycle ==
    [][/\ Cardinality(xprobe'.alive) <= 1
       /\ xprobe'.mapped = {}
       /\ PassStep =>
             LET new == xprobe'.created
                 destroy == IF probeWindow # 0
                            THEN <<Call("XDestroyWindow", probeWindow)>>
                            ELSE <<>>
             IN  IF ev'.q.number > 1 /\ ~ev'.q.isNull
                 THEN /\ new \notin 0 .. xprobe.created
                      /\ xprobe'.alive = {new}
                      /\ ProbeLifecycle(calls') = destroy \o
                            <<Call("XCreateWindow", new),
                              Call("xdo_map_window", new),
                              Call("xdo_unmap_window", new)>>
                 ELSE /\ xprobe'.alive = {}
                      /\ ProbeLifecycle(calls') = destroy]_vars

\* C20 as the sentence has it, for the passes with several monitors: the
\* pass destroys the window the pass before left, and creates one.
C20_AsClaimed ==
    [][MultiMonitorPassStep =>
          /\ CallsOf(calls', "XDestroyWindow") =
                [k \in 1 .. Cardinality(xprobe.alive) |->
                    Call("XDestroyWindow", CHOOSE w \in xprobe.alive : TRUE)]
          /\ Len(CallsOf(calls', "XCreateWindow")) = 1]_vars

\* The second pass with several monitors has replaced the window of the first.
C20_Witness ==
    /\ MultiMonitorPass
    /\ xprobe.created = MaxProbes
    /\ xprobe.alive = {MaxProbes}
    /\ xprobe.mapped = {}
    /\ ~xprobe.badWindow
    /\ CallsOf(calls, "XDestroyWindow") # <<>>

(***************************************************************************)
(* C21.  The handlers of the create, map, unmap and destroy events refresh *)
(* the Snapshot once per event, as the first thing they do: the focused    *)
(* window of a map event is resolved in the list refreshed for that event. *)
(* The handler of the active-app change refreshes nothing.                 *)
(***************************************************************************)
C21_OneRefreshBeforeDragLogic ==
    [][/\ ev'.type \in {"CreateNotify", "MapNotify", "UnmapNotify",
                        "DestroyNotify"} =>
             /\ CallsOf(calls', "getWinInfoForAllWindows") = <<Refresh>>
             /\ calls'[1] = Refresh
       /\ (ev'.type = "MapNotify" /\ ~mIsWindowBeingDragged
              /\ ButtonHeld(ev'.reply)) =>
             LET r == ResolvedInSnapshot(mGlobal'.winInfoList,
                                         ev'.focusedWindow)
             IN  IF r # None
                 THEN DraggingNext(r)
                 ELSE CallsOf(calls', "removeFallenSnowFromWindow") = <<>>
       /\ ev'.type = "ActiveAppChange" =>
             /\ CallsOf(calls', "getWinInfoForAllWindows") = <<>>
             /\ mGlobal' = mGlobal]_vars

\* A click drag of a window that came into the list with this very event:
\* the focused window resolves to the last record of a full list.
C21_Witness ==
    /\ ev.type = "MapNotify"
    /\ calls[1] = Refresh
    /\ Len(mGlobal.winInfoList) = MaxListLen
    /\ ev.focusedWindow # None
    /\ Dragging(mGlobal.winInfoList[MaxListLen].window)
    /\ ResolvedInSnapshot(mGlobal.winInfoList, ev.focusedWindow)
          = mGlobal.winInfoList[MaxListLen].window

(***************************************************************************)
(* C22.  A tick that has taken the semaphore releases it once, on the way  *)
(* it returns by, and not before; a tick that has not taken it releases    *)
(* nothing: a held semaphore is only set free by its holder.  Between two  *)
(* ticks the main loop does not hold the semaphore.                        *)
(***************************************************************************)
UnlocksOf(seq) == Len(CallsOf(seq, "unlockFallenSnowSemaphore"))

C22_LockReleasedOncePerTick ==
    [][/\ (sem = "tick" /\ pc' = "idle") =>
             /\ UnlocksOf(calls') = 1
             /\ calls'[Len(calls')] = Unlock \/ ev'.path = "workspaceLost"
             /\ sem' = "free"
       /\ (sem = "tick" /\ pc' # "idle") =>
             /\ UnlocksOf(calls') = 0
             /\ sem' = "tick"
       /\ (sem # "tick" /\ calls' # calls) => UnlocksOf(calls') = 0
       /\ (sem = "engine" /\ sem' # "engine") =>
             UNCHANGED <<pc, ret, ev, calls, mUpdateWindowsLockCounter>>
       /\ sem' = "tick" <=> pc' # "idle"]_vars

\* A tick returns by the sanity check of the overlay window, which found no
\* overlay window in the list, and is not the first tick to have taken the
\* semaphore.
C22_Witness ==
    /\ ev.type = "updateWindowsList"
    /\ ev.path = "rebuild"
    /\ pc = "idle"
    /\ sem = "free"
    /\ OverlayLostMessage \in {calls[i] : i \in DOMAIN calls}
    /\ UnlocksOf(calls) = 1
    /\ nLocked > 1

(***************************************************************************)
(* C23.  The records of the list, once a refresh has stored them, are not  *)
(* modified in place: the list changes only by a refresh replacing it, in  *)
(* a handler or in the tick before its correction loop.                    *)
(***************************************************************************)
RefreshStep ==
    /\ pc \in {"idle", "locked"}
    /\ Refresh \in {calls'[i] : i \in DOMAIN calls'}

C23_AsClaimed ==
    [][mGlobal'.winInfoList # mGlobal.winInfoList => RefreshStep]_vars

\* What does hold: outside a refresh the list is changed by the correction
\* loop of the tick alone, one record a step, in its x and y, by the offset
\* less the position of the overlay window; the window ids, their order and
\* the length of the list stay.
C23_InPlaceCorrectionOnly ==
    [][(mGlobal'.winInfoList # mGlobal.winInfoList /\ ~RefreshStep) =>
          LET old == mGlobal.winInfoList
              new == mGlobal'.winInfoList
              k == loc.i + 1
          IN  /\ pc = "body"
              /\ sem = "tick"
              /\ k \in DOMAIN old
              /\ new = [old EXCEPT
                          ![k].x = @ + mGlobal.WindowOffsetX - mGlobal.SnowWinX,
                          ![k].y = @ + mGlobal.WindowOffsetY - mGlobal.SnowWinY]]_vars

\* The correction loop has rewritten the first of two records and not yet the
\* second.
C23_Witness ==
    /\ pc = "loop"
    /\ loc.i = 1
    /\ Len(mGlobal.winInfoList) = MaxListLen
    /\ mGlobal.winInfoList[1] # WinInfo(mGlobal.winInfoList[1].window)
    /\ mGlobal.winInfoList[MaxListLen]
          = WinInfo(mGlobal.winInfoList[MaxListLen].window)

(***************************************************************************)
(* C24.  A window-mapped event received while Idle, when the pointer query *)
(* fails, or reports no button held, or the focused window is None, or     *)
(* neither the focused window nor an ancestor of it is in the Snapshot:    *)
(* the click-and-hold heuristic asks for no removal of snow, requests no   *)
(* shutdown and starts no drag, and the outcome of the event is that of    *)
(* the keyboard heuristic alone.                                           *)
(***************************************************************************)
C24_ClickDeclines ==
    \/ ~ev'.reply.found
    \/ ~BitSet(ev'.reply.state, POINTER_CLICKDOWN)
    \/ ev'.focusedWindow = None
    \/ ResolvedInSnapshot(mGlobal'.winInfoList, ev'.focusedWindow) = None

C24_ClickDeclinedThenKeyboard ==
    [][(ev'.type = "MapNotify" /\ Idle /\ C24_ClickDeclines) =>
          /\ CallsOf(calls', "removeFallenSnowFromWindow") = <<>>
          /\ CallsOf(calls', "displayMessageBox") = <<>>
          /\ UNCHANGED <<Flags, ret>>
          /\ IF /\ ev'.send_event = 0
                /\ ev'.window = mActiveAppDragWindowCandidate
                /\ ev'.event = Rootwindow
                /\ ev'.override_redirect = 0
             THEN /\ mIsWindowBeingDragged' = (mActiveAppWindow # None)
                  /\ mWindowBeingDragged' = mActiveAppWindow
                  /\ calls' = IF mActiveAppWindow # None
                              THEN <<Refresh,
                                     Call("removeFallenSnowFromAllWindows", None)>>
                              ELSE <<Refresh>>
             ELSE /\ UNCHANGED <<mIsWindowBeingDragged, mWindowBeingDragged>>
                  /\ calls' = <<Refresh>>]_vars

\* A button was held and the focused window had no window of its chain in
\* the Snapshot; the same event started a keyboard drag.
C24_Witness ==
    /\ ev.type = "MapNotify"
    /\ ButtonHeld(ev.reply)
    /\ ev.focusedWindow # None
    /\ ResolvedInSnapshot(mGlobal.winInfoList, ev.focusedWindow) = None
    /\ mGlobal.winInfoList # <<>>
    /\ Dragging(mActiveAppWindow)
    /\ Len(CallsOf(calls, "removeFallenSnowFromAllWindows")) = 1

(***************************************************************************)
(* C25.  getDragWindowOf(w) answers the first window of w, parent(w),      *)
(* parent(parent(w)), ... that is in the Snapshot, w itself when it is in  *)
(* it, and None when the query for the parent fails before a window of the *)
(* chain was found: an answer that is not None is a window of the Snapshot.*)
(***************************************************************************)
C25_FirstOfChainInSnapshot ==
    ev.type = "getDragWindowOf" =>
        LET list == mGlobal.winInfoList
            chain == AncestorChain(ev.windowNode)
            hits == {k \in 1 .. Len(chain) : InSnapshot(list, chain[k])}
        IN  /\ chain[1] = ev.windowNode
            /\ ~XQueryTreeOk(chain[Len(chain)])
            /\ \A k \in 1 .. (Len(chain) - 1) :
                   XQueryTreeOk(chain[k]) /\ chain[k + 1] = XQueryTreeParent(chain[k])
            /\ hits = {} => ev.result = None
            /\ hits # {} =>
                   \E k \in hits : /\ ev.result = chain[k]
                                    /\ \A j \in hits : k <= j
            /\ InSnapshot(list, ev.windowNode) => ev.result = ev.windowNode
            /\ ev.result # None => InSnapshot(list, ev.result)

\* The answer is the grandparent of the window asked about, with another
\* window in the list.
C25_Witness ==
    /\ ev.type = "getDragWindowOf"
    /\ ev.result # None
    /\ ev.windowNode # None
    /\ XQueryTreeParent(ev.windowNode) \notin {None, ev.result}
    /\ Len(mGlobal.winInfoList) = MaxListLen

(***************************************************************************)
(* C26.  getXineramaScreenInfo, asked for any screen with an array of      *)
(* L >= 1 screens, reads only elements 0 .. L-1 of the array.              *)
(***************************************************************************)
C26_AsClaimed ==
    (ev.type = "getXineramaScreenInfo" /\ ~ev.q.isNull) =>
        ev.out.reads \subseteq 0 .. (Len(ev.q.infoArray) - 1)

\* What does hold.  Asked for a screen of the array, it answers that
\* screen's geometry; asked for a negative screen, position (0,0) with the
\* largest width and the largest height of all screens; it returns L
\* whenever there is an array, and FALSE with nothing written or read when
\* there is none.  The elements read are within the array unless the screen
\* asked for is L or more, and then element L alone is read.
C26_ScreenOfArrayOrLargest ==
    ev.type = "getXineramaScreenInfo" =>
        LET a == ev.q.infoArray
            L == Len(a)
            r == ev.requestScreen
            out == ev.out
        IN  IF ev.q.isNull
            THEN out.ret = 0 /\ out.result = ResultUnset /\ out.reads = {}
            ELSE /\ out.ret = L
                 /\ r \in 0 .. (L - 1) =>
                        /\ out.result = [PosX |-> a[r + 1].x_org,
                                         PosY |-> a[r + 1].y_org,
                                         Width |-> a[r + 1].width,
                                         Height |-> a[r + 1].height]
                        /\ out.reads = {r}
                 /\ r < 0 =>
                        /\ out.result.PosX = 0 /\ out.result.PosY = 0
                        /\ \A i \in 1 .. L :
                              /\ a[i].width <= out.result.Width
                              /\ a[i].height <= out.result.Height
                        /\ \E i \in 1 .. L : a[i].width = out.result.Width
                        /\ \E i \in 1 .. L : a[i].height = out.result.Height
                        /\ out.reads = 0 .. (L - 1)
                 /\ r >= L => out.reads = {L}

\* A negative request with several screens: the width answered is that of
\* one screen and the height that of another.
C26_Witness ==
    /\ ev.type = "getXineramaScreenInfo"
    /\ ~ev.q.isNull
    /\ ev.requestScreen < 0
    /\ \A i \in DOMAIN ev.q.infoArray :
          ~(/\ ev.q.infoArray[i].width = ev.out.result.Width
            /\ ev.q.infoArray[i].height = ev.out.result.Height)

(***************************************************************************)
(* C27.  After the marker "trans_done" was cleared, the first call of      *)
(* resetVolatileTransparentWindowAttributes does the settings and every    *)
(* later call changes nothing.  createTransparentWindow, when it succeeds, *)
(* has done them once and leaves the marker cleared: the next draw event   *)
(* does them once more, the draw events after that do nothing.  Done, the  *)
(* settings are: the window takes no clicks; with below = 1 it is kept     *)
(* below, with below = 0 its stacking is left alone, with any other value  *)
(* it is kept above; it is stuck if sticky is set and unstuck if not.      *)
(***************************************************************************)
\* The settings of widget w as they are done on a widget that was v.
SettingsDone(v, w) ==
    /\ w.input_shape = "empty"
    /\ IF "trans_nobelow" \in v.data
       THEN w.keep_below = v.keep_below /\ w.keep_above = v.keep_above
       ELSE IF "trans_below" \in v.data
       THEN w.keep_below = "on" /\ w.keep_above = "off"
       ELSE w.keep_above = "on" /\ w.keep_below = "off"
    /\ w.sticky = IF "trans_sticky" \in v.data THEN "on" ELSE "off"

C27_SettingsOncePerClear ==
    [][/\ (ev'.type = "draw" /\ widget.trans_done = 0) =>
             /\ ev'.applied = 1
             /\ widget'.trans_done # 0
             /\ SettingsDone(widget, widget')
             /\ widget'.data = widget.data
       /\ (ev'.type = "draw" /\ widget.trans_done # 0) =>
             /\ ev'.applied = 0
             /\ widget' = widget
             /\ calls' = <<>>
       /\ (ev'.type = "createTransparentWindow" /\ ev'.ret) =>
             LET asked == [widget EXCEPT !.data =
                     (IF ev'.sticky # 0 THEN {"trans_sticky"} ELSE {})
                        \cup (CASE ev'.below = 0 -> {"trans_nobelow"}
                                [] ev'.below = 1 -> {"trans_below"}
                                [] OTHER -> {})]
             IN  /\ ev'.applied = 1
                 /\ widget'.trans_done = 0
                 /\ widget'.data = asked.data
                 /\ SettingsDone(asked, widget')
       /\ ev'.type \notin {"draw", "createTransparentWindow"} =>
             widget'.trans_done = widget.trans_done]_vars

\* The second draw event after the window was created a second time, with
\* two handlers connected: the settings were lost after the first and are
\* not done again.
C27_Witness ==
    /\ ev.type = "draw"
    /\ ev.applied = 0
    /\ widget.handlers = MaxCreates
    /\ widget.trans_done # 0
    /\ widget.input_shape = "empty"
    /\ "trans_below" \in widget.data
    /\ widget.keep_below # "on"

(***************************************************************************)
(* C28.  After any sequence of events the drag flag and the stored dragged *)
(* window agree: mIsWindowBeingDragged is true exactly when                *)
(* mWindowBeingDragged is not None.                                        *)
(***************************************************************************)
C28_FlagIffWindow ==
    mIsWindowBeingDragged <=> mWindowBeingDragged # None

\* The keyboard heuristic has run with no active application window stored:
\* it wrote the flag false and the window None.
C28_Witness ==
    /\ ev.type = "MapNotify"
    /\ IsActiveAppMoving(ev)
    /\ ev.window # None
    /\ ~ButtonHeld(ev.reply)
    /\ mActiveAppWindow = None
    /\ ~mIsWindowBeingDragged
    /\ mWindowBeingDragged = None

(***************************************************************************)
(* C29.  A window-mapped event does not end a drag: when a drag is on as   *)
(* the handler of a map event is entered, a drag is on when it returns.    *)
(***************************************************************************)
C29_AsClaimed ==
    [][(ev'.type = "MapNotify" /\ mIsWindowBeingDragged)
          => mIsWindowBeingDragged']_vars

\* What does hold.  A map event that arrives during a drag leaves the drag
\* as it is unless the event has the signature of the candidate; with the
\* signature it hands the drag to the active application window and asks
\* for the snow of all windows to be removed, and it ends the drag when
\* there is no active application window.
C29_MapDuringDrag ==
    [][(ev'.type = "MapNotify" /\ mIsWindowBeingDragged) =>
          IF /\ ev'.send_event = 0
             /\ ev'.window = mActiveAppDragWindowCandidate
             /\ ev'.event = Rootwindow
             /\ ev'.override_redirect = 0
          THEN /\ mIsWindowBeingDragged' = (mActiveAppWindow # None)
               /\ mWindowBeingDragged' = mActiveAppWindow
               /\ Len(CallsOf(calls', "removeFallenSnowFromAllWindows"))
                     = IF mActiveAppWindow # None THEN 1 ELSE 0
               /\ UNCHANGED mActiveAppDragWindowCandidate
          ELSE /\ UNCHANGED dragVars
               /\ calls' = <<Refresh>>]_vars

\* The candidate's map event has ended a drag: the snow of the dragged
\* window is still marked as removed, no window is dragged any more.
C29_Witness ==
    /\ ev.type = "MapNotify"
    /\ IsActiveAppMoving(ev)
    /\ ev.wasDragging
    /\ Idle
    /\ mActiveAppDragWindowCandidate # None

(***************************************************************************)
(* C30.  Over any sequence of discovery passes, with whatever numbers of   *)
(* monitors, XDestroyWindow is only requested for a probe window that      *)
(* exists at that moment: never twice for one id, never for an id that was *)
(* not created.                                                            *)
(***************************************************************************)
C30_AsClaimed ==
    /\ ~xprobe.badWindow
    /\ \A i \in DOMAIN calls :
          calls[i].fn = "XDestroyWindow" => calls[i].arg \in 1 .. xprobe.created

(***************************************************************************)
(* C31.  Whenever a tick hands the list to the accumulation engine, on the *)
(* drag path as on the rebuild path, every record of the list holds the    *)
(* position the window system reported with the correction, the offset     *)
(* less the position of the overlay window, added exactly once.            *)
(***************************************************************************)
\* Record r holds the reported position of its window, corrected once under
\* the offsets of g.
CorrectedOnce(g, r) ==
    /\ r.x = WinInfo(r.window).x + g.WindowOffsetX - g.SnowWinX
    /\ r.y = WinInfo(r.window).y + g.WindowOffsetY - g.SnowWinY

\* The lists handed to the engine by this step.
HandedOver ==
    IF pc \in {"locked", "check"} /\ pc' = "idle"
    THEN {c.arg : c \in {calls'[i] : i \in DOMAIN calls'} \cap
                        {Call("doAllFallenSnowWinInfoUpdates", l) :
                            l \in {mGlobal.winInfoList, mGlobal'.winInfoList}}}
    ELSE {}

C31_AsClaimed ==
    [][\A list \in HandedOver :
          \A i \in DOMAIN list : CorrectedOnce(mGlobal', list[i])]_vars

\* What does hold, in the main loop that runs one callback at a time: the
\* list a tick hands over on the rebuild path is the list it has refreshed,
\* each record corrected once.  On the drag path the list is handed over as
\* the last refresh or tick left it.
C31_RebuildHandsCorrected ==
    [][/\ (pc = "check" /\ pc' = "idle") =>
             /\ HandedOver = {mGlobal.winInfoList}
             /\ \A i \in DOMAIN mGlobal.winInfoList :
                   CorrectedOnce(mGlobal, mGlobal.winInfoList[i])
       /\ (pc = "locked" /\ pc' = "idle" /\ ev'.path = "drag") =>
             /\ HandedOver = {mGlobal.winInfoList}
             /\ mGlobal'.winInfoList = mGlobal.winInfoList]_vars

\* A tick of the rebuild path has handed over a list of two corrected
\* records.
C31_Witness ==
    /\ ev.type = "updateWindowsList"
    /\ ev.path = "rebuild"
    /\ pc = "idle"
    /\ Len(mGlobal.winInfoList) = MaxListLen
    /\ Call("doAllFallenSnowWinInfoUpdates", mGlobal.winInfoList)
          \in {calls[i] : i \in DOMAIN calls}
    /\ \A i \in DOMAIN mGlobal.winInfoList :
          CorrectedOnce(mGlobal, mGlobal.winInfoList[i])

(***************************************************************************)
(* C32.  With LOAD_PRESSURE_LOW <= 0 <= LOAD_PRESSURE_HIGH, after every    *)
(* call of execLoadMeasureBackgroundThread the load pressure is within     *)
(* the two thresholds and the warning count is at most WARNING_COUNT_MAX.  *)
(* The busy flag changes only in a call in which the pressure, counted up  *)
(* or down, went beyond a threshold: to true above the high one, to false  *)
(* below the low one.  Each time it goes beyond one the pressure is put    *)
(* back to 0.  The call returns true.                                      *)
(***************************************************************************)
C32_PressureWithinThresholds ==
    [][ev'.type = "execLoadMeasureBackgroundThread" =>
          LET m == loadMeasure
              n == loadMeasure'
              moved == m.mLoadPressure + (IF ev'.late THEN 1 ELSE -1)
              above == moved > m.LOAD_PRESSURE_HIGH
              below == moved < m.LOAD_PRESSURE_LOW
          IN  /\ n.mLoadPressure \in m.LOAD_PRESSURE_LOW .. m.LOAD_PRESSURE_HIGH
              /\ n.mWarningCount <= m.WARNING_COUNT_MAX
              /\ n.mWarningCount \in {m.mWarningCount, m.mWarningCount + 1}
              /\ n.mIsSystemBusy # m.mIsSystemBusy =>
                    \/ above /\ n.mIsSystemBusy
                    \/ below /\ ~n.mIsSystemBusy
              /\ above => n.mIsSystemBusy
              /\ below => ~n.mIsSystemBusy
              /\ (above \/ below) => n.mLoadPressure = 0
              /\ ~(above \/ below) => n.mLoadPressure = moved
              /\ ev'.ret = TRUE
              /\ n.LOAD_PRESSURE_LOW = m.LOAD_PRESSURE_LOW
              /\ n.LOAD_PRESSURE_HIGH = m.LOAD_PRESSURE_HIGH
              /\ n.WARNING_COUNT_MAX = m.WARNING_COUNT_MAX]_vars

\* The system has been busy as often as warnings are counted, and then once
\* more, and the last call has cleared the flag and told the menu.
C32_Witness ==
    /\ ev.type = "execLoadMeasureBackgroundThread"
    /\ ~ev.late
    /\ loadMeasure.WARNING_COUNT_MAX = MaxWarnings
    /\ loadMeasure.mWarningCount = MaxWarnings
    /\ loadMeasure.LOAD_PRESSURE_LOW = 0 - MaxPressure
    /\ ~loadMeasure.mIsSystemBusy
    /\ loadMeasure.mLoadPressure = 0
    /\ calls = <<Call("removeBusyStyleClass", None)>>

=========================================================================
